---------------------------- MODULE Spec2Model ----------------------------
(***************************************************************************)
(* A model of the LinkedIn scraping toolkit: the skill scorers of the      *)
(* three scraper classes, the job-search request and its query compiler,   *)
(* the job search itself, the ordered-selector field extractor, the two    *)
(* profile-page readers and the pages they leave the browser on, the two   *)
(* profile searches, get_scraping_status and the /linkedin/search handler  *)
(* of app.py.                                                              *)
(*                                                                         *)
(* A Python str is a sequence of one-character strings, so that lower(),   *)
(* strip(), the `in` substring test and URL quoting are computed, not      *)
(* assumed.                                                                *)
(***************************************************************************)
EXTENDS Integers, Sequences, FiniteSets, TLC

VARIABLES
    scraper,        \* which scraper class the object under analysis is
    target_skills,  \* self.target_skills of that object
    pc,             \* "idle", or the position inside the running operation
    op,             \* the operation last invoked
    observed,       \* scorer argument: profile_skills / the skills read off the page
    target,         \* scorer argument: target_skills as passed by the caller
    score,          \* scorer result: match_score as a fraction [num, den]
    matched,        \* scorer result: matched_skills
    arg_skills,     \* the skills argument of the last JobSearchRequest(...) call
    request,        \* the JobSearchRequest in hand, or NoValue
    raised,         \* the exception the last call raised to its caller, or "none"
    url,            \* the value _build_search_url returned
    card,           \* the search-result card in hand: selector -> what a lookup gives
    selectors,      \* argument of _extract_text_from_card
    text,           \* the value _extract_text_from_card returned
    driver,         \* self.driver: 0 for None, else the number of a browser session
    local_driver,   \* the local variable driver of search_jobs, likewise
    sessions,       \* the browser sessions created so far, each with its quit() calls
    page,           \* the job containers search_jobs found on the page
    next_card,      \* the position of the for loop of search_jobs in page
    jobs,           \* the local list jobs of search_jobs
    processed_count,\* the local counter of search_jobs
    response,       \* the JobSearchResponse search_jobs returns, or NoValue
    profile_page,   \* the profile page the browser shows: what each lookup on it gives
    profile,        \* the ProfileData scrape_profile returned, or NoValue
    detailed_info,  \* the dict extract_detailed_profile returned, or NoValue
    profile_limit,  \* the limit (max_profiles) argument of the profile search in hand
    results,        \* the results page of the profile search, or NoValue
    profile_cards,  \* the list the profile search iterates over: cards, or URLs
    next_profile,   \* the position of the profile search's for loop in that list
    profiles,       \* the list of ProfileData the profile search builds and returns
    detail_calls,   \* the URLs of the profile pages opened during the search
    history,        \* the pages in the history of the profile helpers' browser, the one shown last
    scraping_status,\* the ScrapingStatus get_scraping_status returned, or NoValue
    http_status,    \* the status code the /linkedin/search handler answered with, 0 for none
    scraper_calls   \* the calls of linkedin_scraper.search_jobs the handler has made

objVars == <<scraper, target_skills>>

scoreVars == <<observed, target, score, matched>>

queryVars == <<arg_skills, request, raised, url>>

cardVars == <<card, selectors, text>>

jobsVars == <<driver, local_driver, sessions, page, next_card, jobs,
              processed_count, response>>

profileVars == <<profile_page, profile, detailed_info>>

searchVars == <<profile_limit, results, profile_cards, next_profile, profiles, detail_calls>>

navVars == <<history>>

serviceVars == <<scraping_status, http_status, scraper_calls>>

vars == <<scraper, target_skills, pc, op, observed, target, score, matched,
          arg_skills, request, raised, url, card, selectors, text,
          driver, local_driver, sessions, page, next_card, jobs,
          processed_count, response, profile_page, profile, detailed_info,
          profile_limit, results, profile_cards, next_profile, profiles,
          detail_calls, history, scraping_status, http_status, scraper_calls>>

\* Python's None, where an object is expected
NoValue == [none |-> TRUE]

-----------------------------------------------------------------------------
(* Bounds of the model.                                                    *)

MaxObserved == 2

MaxTarget == 2

MaxCustom == 1

-----------------------------------------------------------------------------
(* Python str operations.                                                  *)

UpperLetters ==
    <<"A", "B", "C", "D", "E", "F", "G", "H", "I", "J", "K", "L", "M",
      "N", "O", "P", "Q", "R", "S", "T", "U", "V", "W", "X", "Y", "Z">>

LowerLetters ==
    <<"a", "b", "c", "d", "e", "f", "g", "h", "i", "j", "k", "l", "m",
      "n", "o", "p", "q", "r", "s", "t", "u", "v", "w", "x", "y", "z">>

Whitespace == {" ", "\t", "\n"}

Range(s) == {s[i] : i \in 1..Len(s)}

SetMin(S) == CHOOSE x \in S : \A y \in S : x <= y

SetMax(S) == CHOOSE x \in S : \A y \in S : x >= y

\* str.lower() on one character
LowerChar(c) ==
    IF \E i \in 1..Len(UpperLetters) : UpperLetters[i] = c
    THEN LowerLetters[CHOOSE i \in 1..Len(UpperLetters) : UpperLetters[i] = c]
    ELSE c

\* str.lower()
Lower(s) == [i \in 1..Len(s) |-> LowerChar(s[i])]

\* str.strip()
Strip(s) ==
    LET keep == {i \in 1..Len(s) : s[i] \notin Whitespace}
    IN  IF keep = {} THEN <<>> ELSE SubSeq(s, SetMin(keep), SetMax(keep))

\* the substring test `a in b`
In(a, b) == \E i \in 0..(Len(b) - Len(a)) : SubSeq(b, i + 1, i + Len(a)) = a

\* the list comprehension [f(x) for x in xs]
MapSeq(f(_), xs) == [i \in 1..Len(xs) |-> f(xs[i])]

\* skill.lower().strip()
LowerStrip(s) == Strip(Lower(s))

\* all the lists of at most n elements of S
ListsUpTo(S, n) == UNION {[1..k -> S] : k \in 0..n}

\* the orders in which iterating over a Python set may yield its elements
SeqsOfSet(S) == {s \in [1..Cardinality(S) -> S] : Range(s) = S}

-----------------------------------------------------------------------------
(* The skills the model draws scorer inputs from: a skill, a longer skill  *)
(* containing it, the same skill in another case with surrounding blanks,  *)
(* an unrelated skill (among the targets), and a blank entry (among the    *)
(* observed skills).                                                       *)

SkillSQL == <<"S", "Q", "L">>

SkillOracleSQL == <<"O", "r", "a", "c", "l", "e", " ", "S", "Q", "L">>

SkillPaddedSql == <<" ", "s", "q", "l", " ">>

SkillJava == <<"J", "a", "v", "a">>

SkillBlank == <<" ">>

ObservedPool == {SkillSQL, SkillOracleSQL, SkillPaddedSql, SkillBlank}

TargetPool == {SkillSQL, SkillOracleSQL, SkillPaddedSql, SkillJava}

\* self.target_skills as the constructors set it
DefaultTargetSkills ==
    << <<"O", "r", "a", "c", "l", "e">>,
       <<"P", "L", "/", "S", "Q", "L">>,
       <<"S", "Q", "L">>,
       <<"D", "a", "t", "a", "b", "a", "s", "e">>,
       <<"O", "r", "a", "c", "l", "e", " ", "D", "a", "t", "a", "b", "a", "s", "e">>,
       <<"S", "t", "o", "r", "e", "d", " ", "P", "r", "o", "c", "e", "d", "u", "r", "e", "s">>,
       <<"T", "r", "i", "g", "g", "e", "r", "s">>,
       <<"F", "u", "n", "c", "t", "i", "o", "n", "s">>,
       <<"P", "a", "c", "k", "a", "g", "e", "s">>,
       <<"P", "e", "r", "f", "o", "r", "m", "a", "n", "c", "e", " ", "T", "u", "n", "i", "n", "g">>,
       <<"Q", "u", "e", "r", "y", " ", "O", "p", "t", "i", "m", "i", "z", "a", "t", "i", "o", "n">>,
       <<"D", "a", "t", "a", " ", "M", "o", "d", "e", "l", "i", "n", "g">>,
       <<"E", "T", "L">>,
       <<"D", "a", "t", "a", " ", "W", "a", "r", "e", "h", "o", "u", "s", "e">>,
       <<"O", "r", "a", "c", "l", "e", " ", "F", "o", "r", "m", "s">>,
       <<"O", "r", "a", "c", "l", "e", " ", "R", "e", "p", "o", "r", "t", "s">>,
       <<"A", "P", "E", "X">>,
       <<"S", "Q", "L", "*", "P", "l", "u", "s">>,
       <<"T", "O", "A", "D">>,
       <<"S", "Q", "L", " ", "D", "e", "v", "e", "l", "o", "p", "e", "r">>,
       <<"U", "n", "i", "x">>,
       <<"S", "h", "e", "l", "l", " ", "S", "c", "r", "i", "p", "t", "i", "n", "g">>,
       <<"P", "y", "t", "h", "o", "n">>,
       <<"J", "a", "v", "a">>,
       <<"J", "a", "v", "a", "S", "c", "r", "i", "p", "t">> >>

Scrapers == {"LinkedInScraper", "LinkedInScraperFinal", "LinkedInProfileScraper"}

-----------------------------------------------------------------------------
(* The skill scorers.  A score is the fraction num/den, den > 0.           *)

ZeroScore == [num |-> 0, den |-> 1]

\* the nested loop of both calculate_skill_match methods: the normalised
\* targets, in order, for which some normalised profile skill stands in
\* containment; each is appended once, then `break`
matching_loop(profile_skills_lower, target_skills_lower) ==
    LET hit(t) == \E i \in 1..Len(profile_skills_lower) :
                      \/ In(t, profile_skills_lower[i])
                      \/ In(profile_skills_lower[i], t)
    IN  SelectSeq(target_skills_lower, hit)

\* LinkedInScraper.calculate_skill_match of linkedin_scraper.py; self_targets
\* is self.target_skills
calculate_skill_match(self_targets, profile_skills, target_arg) ==
    LET ts == IF target_arg = <<>> THEN self_targets ELSE target_arg
    IN  IF profile_skills = <<>>
        THEN [score |-> ZeroScore, matched |-> <<>>]
        ELSE LET m == matching_loop(MapSeq(LowerStrip, profile_skills),
                                    MapSeq(LowerStrip, ts))
             IN  [score   |-> IF ts # <<>>
                              THEN [num |-> 100 * Len(m), den |-> Len(ts)]
                              ELSE ZeroScore,
                  matched |-> m]

\* LinkedInScraper.calculate_skill_match of linkedin_scraper_final.py
calculate_skill_match_final(profile_skills, target_arg) ==
    IF target_arg = <<>> \/ profile_skills = <<>>
    THEN [score |-> ZeroScore, matched |-> <<>>]
    ELSE LET m == matching_loop(MapSeq(LowerStrip, profile_skills),
                                MapSeq(LowerStrip, target_arg))
         IN  [score   |-> [num |-> 100 * Len(m), den |-> Len(target_arg)],
              matched |-> m]

\* the scoring block of LinkedInProfileScraper.extract_profile_data: the
\* targets whose lower-cased text is contained in some lower-cased skill
profile_matched_skills(skills, self_targets) ==
    LET hit(t) == \E i \in 1..Len(skills) : In(Lower(t), Lower(skills[i]))
    IN  IF skills = <<>> THEN <<>> ELSE SelectSeq(self_targets, hit)


-----------------------------------------------------------------------------
(* The scorers as operations of the scraper object.                        *)

ScoreOps == {"calculate_skill_match", "calculate_skill_match_final",
             "extract_profile_data"}

\* the skills extract_profile_data keeps from the texts it reads off the page:
\* skill_text = get_text().strip(), kept if non-empty and shorter than 50
MaxSkillTextLen == 50

page_skills(texts) ==
    LET keep(t) == t # <<>> /\ Len(t) < MaxSkillTextLen
    IN  SelectSeq(MapSeq(Strip, texts), keep)

\* no scorer call is in progress
NoScoreCall ==
    /\ observed = <<>>
    /\ target = <<>>
    /\ score = ZeroScore
    /\ matched = <<>>

\* no request has been built and no query compiled
NoQuery ==
    /\ arg_skills = <<>>
    /\ request = NoValue
    /\ raised = "none"
    /\ url = <<>>

\* the selectors _extract_single_profile tries for a profile's name (the first
\* three of its list)
SelectorPool == {"span.name-and-icon", ".search-result__title", "h3"}

\* what card.find_element(By.CSS_SELECTOR, selector) followed by element.text
\* gives: NoSuchElementException, another WebDriver exception, or the text
LookupMissing == [kind |-> "NoSuchElementException"]

LookupFailed == [kind |-> "WebDriverException"]

LookupText(t) == [kind |-> "element", text |-> t]

\* no card is in hand and no field extraction is in progress
NoCard ==
    /\ card = [sel \in SelectorPool |-> LookupMissing]
    /\ selectors = <<>>
    /\ text = <<>>

\* no browser session exists and no search is in progress
NoSearch ==
    /\ driver = 0
    /\ local_driver = 0
    /\ sessions = <<>>
    /\ page = <<>>
    /\ next_card = 1
    /\ jobs = <<>>
    /\ processed_count = 0
    /\ response = NoValue

\* no profile page is open and no profile has been scraped
NoProfile ==
    /\ profile_page = NoValue
    /\ profile = NoValue
    /\ detailed_info = NoValue

\* no profile search is in progress
NoProfileSearch ==
    /\ profile_limit = 0
    /\ results = NoValue
    /\ profile_cards = <<>>
    /\ next_profile = 1
    /\ profiles = <<>>
    /\ detail_calls = <<>>

\* the helpers that navigate have opened no page yet: the history holds only
\* the page shown before them
NoNavigation == history = <<"earlier">>

\* no status has been asked for and the handler has answered no request
NoService ==
    /\ scraping_status = NoValue
    /\ http_status = 0
    /\ scraper_calls = 0

\* __init__ of the three scraper classes
InitObject ==
    /\ scraper \in Scrapers
    /\ target_skills = IF scraper = "LinkedInScraperFinal" THEN <<>>
                       ELSE DefaultTargetSkills
    /\ pc = "idle"
    /\ op = "none"

InitScore ==
    /\ InitObject
    /\ NoScoreCall
    /\ NoQuery
    /\ NoCard
    /\ NoSearch
    /\ NoProfile
    /\ NoProfileSearch
    /\ NoNavigation
    /\ NoService

\* scraper.target_skills = target_skills of the module-level scrape_profiles
\* of linkedin_scraper.py, done only for a non-empty list
SetTargetSkills ==
    /\ pc = "idle"
    /\ scraper = "LinkedInScraper"
    /\ \E ts \in ListsUpTo(TargetPool, MaxCustom) \ {<<>>} : target_skills' = ts
    /\ UNCHANGED <<scraper, pc, op, scoreVars, queryVars, cardVars, jobsVars,
                   profileVars, searchVars, navVars, serviceVars>>

CalculateSkillMatch ==
    /\ pc = "idle"
    /\ scraper = "LinkedInScraper"
    /\ \E ps \in ListsUpTo(ObservedPool, MaxObserved), ts \in ListsUpTo(TargetPool, MaxTarget) :
          LET r == calculate_skill_match(target_skills, ps, ts)
          IN  /\ observed' = ps
              /\ target' = ts
              /\ score' = r.score
              /\ matched' = r.matched
    /\ pc' = "returned"
    /\ op' = "calculate_skill_match"
    /\ UNCHANGED <<objVars, queryVars, cardVars, jobsVars, profileVars,
                   searchVars, navVars, serviceVars>>

CalculateSkillMatchFinal ==
    /\ pc = "idle"
    /\ scraper = "LinkedInScraperFinal"
    /\ \E ps \in ListsUpTo(ObservedPool, MaxObserved), ts \in ListsUpTo(TargetPool, MaxTarget) :
          LET r == calculate_skill_match_final(ps, ts)
          IN  /\ observed' = ps
              /\ target' = ts
              /\ score' = r.score
              /\ matched' = r.matched
    /\ pc' = "returned"
    /\ op' = "calculate_skill_match_final"
    /\ UNCHANGED <<objVars, queryVars, cardVars, jobsVars, profileVars,
                   searchVars, navVars, serviceVars>>

\* the scoring block of extract_profile_data; list(set(...)) yields the matched
\* targets in an order the language does not fix
ExtractProfileDataScore ==
    /\ pc = "idle"
    /\ scraper = "LinkedInProfileScraper"
    /\ \E texts \in ListsUpTo(ObservedPool, MaxObserved) :
          LET skills == page_skills(texts)
              found  == Range(profile_matched_skills(skills, target_skills))
          IN  /\ observed' = skills
              /\ target' = target_skills
              /\ \E m \in SeqsOfSet(found) : matched' = m
              /\ score' = [num |-> 100 * Cardinality(found), den |-> Len(target_skills)]
    /\ pc' = "returned"
    /\ op' = "extract_profile_data"
    /\ UNCHANGED <<objVars, queryVars, cardVars, jobsVars, profileVars,
                   searchVars, navVars, serviceVars>>

\* the caller takes the result; the call's arguments and locals are gone
Return ==
    /\ pc = "returned"
    /\ pc' = "idle"
    /\ op' = "none"
    /\ observed' = <<>>
    /\ target' = <<>>
    /\ score' = ZeroScore
    /\ matched' = <<>>
    /\ UNCHANGED <<objVars, queryVars, cardVars, jobsVars, profileVars,
                   searchVars, navVars, serviceVars>>

NextScore ==
    \/ SetTargetSkills
    \/ CalculateSkillMatch
    \/ CalculateSkillMatchFinal
    \/ ExtractProfileDataScore
    \/ Return

SpecScore == InitScore /\ [][NextScore]_vars

-----------------------------------------------------------------------------
(* The job-search request and the query compiler of linkedin_scraper.py.   *)

MaxSkills == 2

SkillPython == <<"P", "y", "t", "h", "o", "n">>

SkillPaddedDjango == <<" ", "D", "j", "a", "n", "g", "o", " ">>

\* the skills a caller may put in a request: a plain one, a padded one, a blank
RequestSkillPool == {SkillPython, SkillPaddedDjango, SkillBlank}

LocationNewYork == <<"N", "e", "w", " ", "Y", "o", "r", "k", ",", " ", "N", "Y">>

\* a location text that spells a query parameter of its own
LocationInjected == <<"&", "f", "_", "E", "=", "9">>

LocationInputs == {<<>>, LocationNewYork, LocationInjected}

CompanyGoogle == <<"G", "o", "o", "g", "l", "e">>

CompanyInputs == {<<>>, CompanyGoogle}

\* experience_mapping of _build_search_url
experience_mapping ==
    [internship |-> "1", entry_level |-> "2", associate |-> "3",
     mid_senior |-> "4", director |-> "5"]

\* job_type_mapping of _build_search_url
job_type_mapping ==
    [full_time |-> "F", part_time |-> "P", contract |-> "C",
     temporary |-> "T", volunteer |-> "V"]

\* what a caller may pass as experience_level: nothing, a listed level, or
\* another text
ExperienceInputs ==
    {"", "internship", "entry_level", "associate", "mid_senior", "director",
     "invalid_level"}

\* what a caller may pass as job_type
JobTypeInputs ==
    {"", "full_time", "part_time", "contract", "temporary", "volunteer",
     "invalid_type"}

\* what a caller may pass as limit: the default, the ends of 1..50 and the
\* values next to them
LimitInputs == {0, 1, 10, 50, 51}

\* the dataclass JobSearchRequest with its __post_init__: the object built, or
\* the exception raised
JobSearchRequest(skills, location, experience_level, job_type, company, limit) ==
    IF skills = <<>>
    THEN [raised |-> "ValueError", value |-> NoValue]
    ELSE LET nonblank(sk) == Strip(sk) # <<>>
         IN  [raised |-> "none",
              value  |-> [skills           |-> MapSeq(Strip, SelectSeq(skills, nonblank)),
                          location         |-> location,
                          experience_level |-> experience_level,
                          job_type         |-> job_type,
                          company          |-> company,
                          limit            |-> limit]]

RECURSIVE Join(_, _)
\* sep.join(xs)
Join(sep, xs) ==
    IF xs = <<>> THEN <<>>
    ELSE IF Len(xs) = 1 THEN xs[1]
    ELSE xs[1] \o sep \o Join(sep, Tail(xs))

Digits == {"0", "1", "2", "3", "4", "5", "6", "7", "8", "9"}

\* the characters urllib.parse.quote never escapes
Unreserved == Range(UpperLetters) \cup Range(LowerLetters) \cup Digits
                  \cup {"_", ".", "-", "~"}

\* the %XX escape of the other characters of the model's texts
PercentCode(c) ==
    CASE c = " " -> <<"%", "2", "0">>
      [] c = "&" -> <<"%", "2", "6">>
      [] c = "*" -> <<"%", "2", "A">>
      [] c = "," -> <<"%", "2", "C">>
      [] c = "/" -> <<"%", "2", "F">>
      [] c = ":" -> <<"%", "3", "A">>
      [] c = "=" -> <<"%", "3", "D">>
      [] c = "?" -> <<"%", "3", "F">>

RECURSIVE Quote(_)
\* urllib.parse.quote(s, safe=''), as urlencode(..., quote_via=quote) calls it
Quote(s) ==
    IF s = <<>> THEN <<>>
    ELSE (IF Head(s) \in Unreserved THEN <<Head(s)>> ELSE PercentCode(Head(s)))
             \o Quote(Tail(s))

\* urlencode(params, quote_via=quote); params is the dict as the list of its
\* items in insertion order
urlencode(params) ==
    LET item(kv) == Quote(kv[1]) \o <<"=">> \o Quote(kv[2])
    IN  Join(<<"&">>, MapSeq(item, params))

\* self.base_url
base_url ==
    <<"h", "t", "t", "p", "s", ":", "/", "/", "w", "w", "w", ".", "l", "i", "n",
      "k", "e", "d", "i", "n", ".", "c", "o", "m", "/", "j", "o", "b", "s", "/",
      "s", "e", "a", "r", "c", "h">>

KeyKeywords == <<"k", "e", "y", "w", "o", "r", "d", "s">>

KeyLocation == <<"l", "o", "c", "a", "t", "i", "o", "n">>

KeyExperience == <<"f", "_", "E">>

KeyJobType == <<"f", "_", "J", "T">>

KeyCompany == <<"f", "_", "C">>

KeyRecency == <<"f", "_", "T", "P", "R">>

KeyStart == <<"s", "t", "a", "r", "t">>

ValueLastDay == <<"r", "8", "6", "4", "0", "0">>

\* the params dict of _build_search_url, as the list of its items in insertion
\* order
search_params(search_request) ==
               (IF search_request.skills # <<>>
                THEN << <<KeyKeywords, Join(<<" ", "O", "R", " ">>, search_request.skills)>> >>
                ELSE <<>>)
            \o (IF search_request.location # <<>>
                THEN << <<KeyLocation, search_request.location>> >>
                ELSE <<>>)
            \o (IF /\ search_request.experience_level # ""
                   /\ search_request.experience_level \in DOMAIN experience_mapping
                THEN << <<KeyExperience,
                          <<experience_mapping[search_request.experience_level]>> >> >>
                ELSE <<>>)
            \o (IF /\ search_request.job_type # ""
                   /\ search_request.job_type \in DOMAIN job_type_mapping
                THEN << <<KeyJobType, <<job_type_mapping[search_request.job_type]>> >> >>
                ELSE <<>>)
            \o (IF search_request.company # <<>>
                THEN << <<KeyCompany, search_request.company>> >>
                ELSE <<>>)
            \o << <<KeyRecency, ValueLastDay>>, <<KeyStart, <<"0">> >> >>

\* _build_search_url with an unlisted experience level passed on as code "0"
\* instead of being left out
build_search_url_unmapped(search_request) ==
    LET e == IF /\ search_request.experience_level # ""
                /\ search_request.experience_level \notin DOMAIN experience_mapping
             THEN << <<KeyExperience, <<"0">> >> >>
             ELSE <<>>
    IN  base_url \o <<"?">> \o urlencode(e \o search_params(search_request))

\* LinkedInScraper._build_search_url
build_search_url(search_request) ==
    base_url \o <<"?">> \o urlencode(search_params(search_request))

InitQuery ==
    /\ InitObject
    /\ scraper = "LinkedInScraper"
    /\ NoScoreCall
    /\ NoQuery
    /\ NoCard
    /\ NoSearch
    /\ NoProfile
    /\ NoProfileSearch
    /\ NoNavigation
    /\ NoService

\* request = JobSearchRequest(...): the caller builds a request
NewJobSearchRequest ==
    /\ pc = "idle"
    /\ request = NoValue
    /\ \E skills \in ListsUpTo(RequestSkillPool, MaxSkills),
          location \in LocationInputs,
          experience_level \in ExperienceInputs,
          job_type \in JobTypeInputs,
          company \in CompanyInputs,
          limit \in LimitInputs :
            LET r == JobSearchRequest(skills, location, experience_level,
                                      job_type, company, limit)
            IN  /\ arg_skills' = skills
                /\ request' = r.value
                /\ raised' = r.raised
    /\ op' = "JobSearchRequest"
    /\ UNCHANGED <<objVars, pc, scoreVars, url, cardVars, jobsVars, profileVars,
                   searchVars, navVars, serviceVars>>

\* url = scraper._build_search_url(request)
BuildSearchUrl ==
    /\ pc = "idle"
    /\ request # NoValue
    /\ url' = build_search_url(request)
    /\ pc' = "returned"
    /\ op' = "_build_search_url"
    /\ UNCHANGED <<objVars, scoreVars, arg_skills, request, raised, cardVars,
                   jobsVars, profileVars, searchVars, navVars, serviceVars>>

\* the caller takes the URL and is done with the request
ReturnUrl ==
    /\ pc = "returned"
    /\ op = "_build_search_url"
    /\ pc' = "idle"
    /\ op' = "none"
    /\ url' = <<>>
    /\ request' = NoValue
    /\ arg_skills' = <<>>
    /\ UNCHANGED <<objVars, scoreVars, raised, cardVars, jobsVars, profileVars,
                   searchVars, navVars, serviceVars>>

NextQuery ==
    \/ NewJobSearchRequest
    \/ BuildSearchUrl
    \/ ReturnUrl

SpecQuery == InitQuery /\ [][NextQuery]_vars

-----------------------------------------------------------------------------
(* The ordered-selector field extractor of linkedin_scraper_final.py.      *)

MaxSelectors == 3

TextAnn == <<" ", "A", "n", "n", " ">>

TextBob == <<"B", "o", "b">>

\* the texts an element of a card may hold: none, blanks only, padded, plain
CardTexts == {<<>>, <<" ">>, TextAnn, TextBob}

Lookups == {LookupMissing, LookupFailed} \cup {LookupText(t) : t \in CardTexts}

Cards == [SelectorPool -> Lookups]

RECURSIVE extract_text_from_card_blank(_, _)
\* _extract_text_from_card without the `if text:` test: the text of the first
\* element located, blank or not
extract_text_from_card_blank(c, sels) ==
    IF sels = <<>> THEN <<>>
    ELSE IF c[Head(sels)].kind = "element"
         THEN Strip(c[Head(sels)].text)
         ELSE extract_text_from_card_blank(c, Tail(sels))

RECURSIVE extract_text_from_card(_, _)
\* LinkedInScraper._extract_text_from_card: the loop over the selectors, from
\* the selector at the head of sels on
extract_text_from_card(c, sels) ==
    IF sels = <<>> THEN <<>>
    ELSE LET found == c[Head(sels)]
         IN  IF found.kind = "element" /\ Strip(found.text) # <<>>
             THEN Strip(found.text)
             ELSE extract_text_from_card(c, Tail(sels))

InitCard ==
    /\ InitObject
    /\ scraper = "LinkedInScraperFinal"
    /\ NoScoreCall
    /\ NoQuery
    /\ card \in Cards
    /\ selectors = <<>>
    /\ text = <<>>
    /\ NoSearch
    /\ NoProfile
    /\ NoProfileSearch
    /\ NoNavigation
    /\ NoService

\* text = self._extract_text_from_card(card, selectors)
ExtractTextFromCard ==
    /\ pc = "idle"
    /\ \E sels \in ListsUpTo(SelectorPool, MaxSelectors) :
          /\ selectors' = sels
          /\ text' = extract_text_from_card(card, sels)
    /\ pc' = "returned"
    /\ op' = "_extract_text_from_card"
    /\ UNCHANGED <<objVars, scoreVars, queryVars, card, jobsVars, profileVars,
                   searchVars, navVars, serviceVars>>

\* the caller takes the text
ReturnText ==
    /\ pc = "returned"
    /\ op = "_extract_text_from_card"
    /\ pc' = "idle"
    /\ op' = "none"
    /\ selectors' = <<>>
    /\ text' = <<>>
    /\ UNCHANGED <<objVars, scoreVars, queryVars, card, jobsVars, profileVars,
                   searchVars, navVars, serviceVars>>

NextCard ==
    \/ ExtractTextFromCard
    \/ ReturnText

SpecCard == InitCard /\ [][NextCard]_vars

-----------------------------------------------------------------------------
(* The job search of linkedin_scraper.py: the module-level search_jobs,    *)
(* which builds a request, runs LinkedInScraper.search_jobs on it and      *)
(* closes the scraper, one step at a time.                                 *)

MaxCards == 2

MaxSessions == 2

\* Python's None, where a text is expected
NoText == <<"None">>

TextNA == <<"N", "/", "A">>

TitleSqlDev == <<" ", "S", "Q", "L", " ", "D", "e", "v", " ">>

CompanyOracle == <<"O", "r", "a", "c", "l", "e">>

PlaceRemote == <<"R", "e", "m", "o", "t", "e">>

JobHref ==
    <<"h", "t", "t", "p", "s", ":", "/", "/", "x", "/", "j", "o", "b", "s", "/",
      "1", "?", "t", "r", "k", "=", "a">>

\* a job container as BeautifulSoup hands it over: for each lookup of
\* _extract_job_from_element the text found or NoText, and whether reading the
\* container raises
JobCard(title, company, location, href, broken) ==
    [title |-> title, company |-> company, location |-> location,
     href |-> href, broken |-> broken]

\* the containers a page may hold: a complete one, one without a title, one on
\* which every lookup finds nothing, and one that cannot be read
JobCards ==
    {JobCard(TitleSqlDev, CompanyOracle, PlaceRemote, JobHref, FALSE),
     JobCard(NoText, CompanyOracle, PlaceRemote, JobHref, FALSE),
     JobCard(NoText, NoText, NoText, NoText, FALSE),
     JobCard(NoText, NoText, NoText, NoText, TRUE)}

\* the skills lists the module-level search_jobs is called with
SearchSkillInputs ==
    {<<>>, <<SkillBlank>>, <<SkillPython>>, <<SkillPython, SkillPaddedDjango>>}

\* LinkedInScraper._extract_job_from_element: the JobListing, or NoValue where
\* the method catches an exception and returns None
extract_job_from_element(self_targets, job_element, search_skills) ==
    IF job_element.broken THEN NoValue
    ELSE LET field(t) == IF t # NoText THEN Strip(t) ELSE TextNA
             m == calculate_skill_match(self_targets, search_skills, search_skills)
         IN  [title          |-> field(job_element.title),
              company        |-> field(job_element.company),
              location       |-> field(job_element.location),
              linkedin_url   |-> IF job_element.href # NoText
                                 THEN job_element.href ELSE <<>>,
              skills_matched |-> m.matched,
              match_score    |-> m.score]

\* the JobSearchResponse of the three failure paths of search_jobs
FailureResponse(message) ==
    [success |-> FALSE, total_jobs_found |-> 0, jobs |-> <<>>, message |-> message]

\* the response of the normal path counting the containers of the page
\* instead of the jobs kept
SuccessResponseOfPage(found) ==
    [success |-> TRUE, total_jobs_found |-> Len(page), jobs |-> found,
     message |-> "Successfully found job listings"]

\* the JobSearchResponse of the normal path
SuccessResponse(found) ==
    [success |-> TRUE, total_jobs_found |-> Len(found), jobs |-> found,
     message |-> "Successfully found job listings"]

\* the message of the handler that catches an exception of the given class
HandlerMessage(exception) ==
    IF exception = "WebDriverException" THEN "Web scraping error"
    ELSE "Unexpected error"

SearchJobsPcs == {"setup", "navigate", "wait", "parse", "loop", "finally"}

InitJobs ==
    /\ InitObject
    /\ scraper = "LinkedInScraper"
    /\ NoScoreCall
    /\ NoQuery
    /\ NoCard
    /\ NoSearch
    /\ NoProfile
    /\ NoProfileSearch
    /\ NoNavigation
    /\ NoService

\* the module-level search_jobs(skills, location, limit): on a new scraper it
\* builds the request and calls scraper.search_jobs(request); a ValueError of
\* the constructor leaves through the finally clause that closes the scraper
StartSearch ==
    /\ pc = "idle"
    /\ scraper = "LinkedInScraper"
    /\ Len(sessions) < MaxSessions
    /\ \E skills \in SearchSkillInputs, limit \in LimitInputs :
          LET r == JobSearchRequest(skills, <<>>, "", "", <<>>, limit)
          IN  /\ arg_skills' = skills
              /\ request' = r.value
              /\ raised' = r.raised
              /\ pc' = IF r.raised = "none" THEN "setup" ELSE "close"
    /\ op' = "search_jobs"
    /\ UNCHANGED <<objVars, scoreVars, url, cardVars, jobsVars, profileVars,
                   searchVars, navVars, serviceVars>>

\* setup_driver: webdriver.Chrome(options) raises; setup_driver raises
\* WebDriverException, which search_jobs catches
SetupDriverNoBrowser ==
    /\ pc = "setup"
    /\ response' = FailureResponse(HandlerMessage("WebDriverException"))
    /\ pc' = "finally"
    /\ UNCHANGED <<objVars, op, scoreVars, queryVars, cardVars, profileVars,
                   searchVars, driver, local_driver, sessions, page, next_card,
                   jobs, processed_count, navVars, serviceVars>>

\* setup_driver: the browser is launched and stored in self.driver, then
\* execute_script raises; setup_driver raises WebDriverException before
\* search_jobs has assigned its local driver
SetupDriverScriptFails ==
    /\ pc = "setup"
    /\ sessions' = Append(sessions, [quits |-> 0])
    /\ driver' = Len(sessions) + 1
    /\ response' = FailureResponse(HandlerMessage("WebDriverException"))
    /\ pc' = "finally"
    /\ UNCHANGED <<objVars, op, scoreVars, queryVars, cardVars, profileVars,
                   searchVars, local_driver, page, next_card, jobs,
                   processed_count, navVars, serviceVars>>

\* driver = self.setup_driver()
SetupDriverOk ==
    /\ pc = "setup"
    /\ sessions' = Append(sessions, [quits |-> 0])
    /\ driver' = Len(sessions) + 1
    /\ local_driver' = Len(sessions) + 1
    /\ pc' = "navigate"
    /\ UNCHANGED <<objVars, op, scoreVars, queryVars, cardVars, profileVars,
                   searchVars, page, next_card, jobs, processed_count, response,
                   navVars, serviceVars>>

\* search_url = self._build_search_url(search_request); driver.get(search_url)
Navigate ==
    /\ pc = "navigate"
    /\ url' = build_search_url(request)
    /\ pc' = "wait"
    /\ UNCHANGED <<objVars, op, scoreVars, arg_skills, request, raised,
                   cardVars, jobsVars, profileVars, searchVars, navVars,
                   serviceVars>>

\* WebDriverWait(...).until(...) finds the results list
WaitReady ==
    /\ pc = "wait"
    /\ pc' = "parse"
    /\ UNCHANGED <<objVars, op, scoreVars, queryVars, cardVars, jobsVars,
                   profileVars, searchVars, navVars, serviceVars>>

\* the TimeoutException of the wait left uncaught: it leaves search_jobs
\* through the finally clause and no response is built
WaitTimeoutEscapes ==
    /\ pc = "wait"
    /\ raised' = "TimeoutException"
    /\ pc' = "finally"
    /\ UNCHANGED <<objVars, op, scoreVars, arg_skills, request, url, cardVars,
                   jobsVars, profileVars, searchVars, navVars, serviceVars>>

\* WebDriverWait(...).until(...) raises TimeoutException
WaitTimeout ==
    /\ pc = "wait"
    /\ response' = FailureResponse("Failed to load job listings - LinkedIn may be blocking requests")
    /\ pc' = "finally"
    /\ UNCHANGED <<objVars, op, scoreVars, queryVars, cardVars, profileVars,
                   searchVars, driver, local_driver, sessions, page, next_card,
                   jobs, processed_count, navVars, serviceVars>>

\* a call on the driver (get, the wait, page_source) raises a
\* WebDriverException, or an exception of another class
DriverFault ==
    /\ pc \in {"navigate", "wait", "parse"}
    /\ \E exception \in {"WebDriverException", "Exception"} :
          response' = FailureResponse(HandlerMessage(exception))
    /\ pc' = "finally"
    /\ UNCHANGED <<objVars, op, scoreVars, queryVars, cardVars, profileVars,
                   searchVars, driver, local_driver, sessions, page, next_card,
                   jobs, processed_count, navVars, serviceVars>>

\* soup.find_all('div', class_='base-card'); jobs = []; processed_count = 0
ParsePage ==
    /\ pc = "parse"
    /\ page' \in ListsUpTo(JobCards, MaxCards)
    /\ next_card' = 1
    /\ jobs' = <<>>
    /\ processed_count' = 0
    /\ pc' = "loop"
    /\ UNCHANGED <<objVars, op, scoreVars, queryVars, cardVars, profileVars,
                   searchVars, driver, local_driver, sessions, response,
                   navVars, serviceVars>>

\* one pass of the for loop over job_containers
ExtractNextJob ==
    /\ pc = "loop"
    /\ next_card <= Len(page)
    /\ processed_count < request.limit
    /\ LET job == extract_job_from_element(target_skills, page[next_card], request.skills)
       IN  IF job # NoValue
           THEN /\ jobs' = Append(jobs, job)
                /\ processed_count' = processed_count + 1
           ELSE UNCHANGED <<jobs, processed_count>>
    /\ next_card' = next_card + 1
    /\ UNCHANGED <<objVars, pc, op, scoreVars, queryVars, cardVars, profileVars,
                   searchVars, driver, local_driver, sessions, page, response,
                   navVars, serviceVars>>

\* the loop ends, by break or at the last container; the response is built
FinishLoop ==
    /\ pc = "loop"
    /\ next_card > Len(page) \/ processed_count >= request.limit
    /\ response' = SuccessResponse(jobs)
    /\ pc' = "finally"
    /\ UNCHANGED <<objVars, op, scoreVars, queryVars, cardVars, profileVars,
                   searchVars, driver, local_driver, sessions, page, next_card,
                   jobs, processed_count, navVars, serviceVars>>

\* finally: if driver: driver.quit()
SearchJobsFinally ==
    /\ pc = "finally"
    /\ sessions' = IF local_driver # 0
                   THEN [sessions EXCEPT ![local_driver].quits = @ + 1]
                   ELSE sessions
    /\ pc' = "close"
    /\ UNCHANGED <<objVars, op, scoreVars, queryVars, cardVars, profileVars,
                   searchVars, driver, local_driver, page, next_card, jobs,
                   processed_count, response, navVars, serviceVars>>

\* LinkedInScraper.close, from the finally clause of the caller:
\* if self.driver: self.driver.quit()
Close ==
    /\ pc = "close"
    /\ sessions' = IF driver # 0
                   THEN [sessions EXCEPT ![driver].quits = @ + 1]
                   ELSE sessions
    /\ pc' = "returned"
    /\ UNCHANGED <<objVars, op, scoreVars, queryVars, cardVars, profileVars,
                   searchVars, driver, local_driver, page, next_card, jobs,
                   processed_count, response, navVars, serviceVars>>

\* the module-level search_jobs returns; its locals, among them the scraper,
\* and those of LinkedInScraper.search_jobs are gone; the record of the
\* browser sessions stays
ReturnSearch ==
    /\ pc = "returned"
    /\ op = "search_jobs"
    /\ pc' = "idle"
    /\ op' = "none"
    /\ arg_skills' = <<>>
    /\ request' = NoValue
    /\ raised' = "none"
    /\ url' = <<>>
    /\ local_driver' = 0
    /\ page' = <<>>
    /\ next_card' = 1
    /\ jobs' = <<>>
    /\ processed_count' = 0
    /\ response' = NoValue
    /\ driver' = 0
    /\ UNCHANGED <<objVars, scoreVars, cardVars, profileVars, searchVars,
                   sessions, navVars, serviceVars>>

\* the ScrapingStatus of a status that counts the browser sessions created
\* as jobs scraped
get_scraping_status_counting ==
    [status |-> "ready", jobs_scraped |-> Len(sessions), profiles_scraped |-> 0,
     errors |-> <<>>]

\* LinkedInScraper.get_scraping_status: the ScrapingStatus it builds, without
\* its timestamp (the time of the call)
get_scraping_status ==
    [status |-> "ready", jobs_scraped |-> 0, profiles_scraped |-> 0,
     errors |-> <<>>]

\* status = scraper.get_scraping_status(), between two searches
GetScrapingStatus ==
    /\ pc = "idle"
    /\ scraper = "LinkedInScraper"
    /\ scraping_status' = get_scraping_status
    /\ pc' = "returned"
    /\ op' = "get_scraping_status"
    /\ UNCHANGED <<objVars, scoreVars, queryVars, cardVars, jobsVars,
                   profileVars, searchVars, navVars, http_status,
                   scraper_calls>>

\* the caller takes the status
ReturnStatus ==
    /\ pc = "returned"
    /\ op = "get_scraping_status"
    /\ scraping_status' = NoValue
    /\ pc' = "idle"
    /\ op' = "none"
    /\ UNCHANGED <<objVars, scoreVars, queryVars, cardVars, jobsVars,
                   profileVars, searchVars, navVars, http_status,
                   scraper_calls>>

NextJobs ==
    \/ StartSearch
    \/ SetupDriverNoBrowser
    \/ SetupDriverScriptFails
    \/ SetupDriverOk
    \/ Navigate
    \/ WaitReady
    \/ WaitTimeout
    \/ DriverFault
    \/ ParsePage
    \/ ExtractNextJob
    \/ FinishLoop
    \/ SearchJobsFinally
    \/ Close
    \/ ReturnSearch
    \/ GetScrapingStatus
    \/ ReturnStatus

SpecJobs == InitJobs /\ [][NextJobs]_vars

-----------------------------------------------------------------------------
(* scrape_profile of linkedin_scraper.py: one profile page read field by   *)
(* field.                                                                  *)

ProfileUrl == <<"h", "t", "t", "p", "s", ":", "/", "/", "x", "/", "i", "n", "/", "a", "n", "n">>

TextDev == <<" ", "D", "e", "v", " ">>

TextAcme == <<"A", "c", "m", "e">>

\* Python's `a or b` on two texts
Or(a, b) == IF a # <<>> THEN a ELSE b

\* xs[:n]
Prefix(xs, n) == SubSeq(xs, 1, IF Len(xs) < n THEN Len(xs) ELSE n)

\* LinkedInScraper._extract_text on what find_element gives for its selector:
\* only NoSuchElementException is caught
extract_text(found) ==
    IF found.kind = "element"
    THEN [raised |-> "none", value |-> Strip(found.text)]
    ELSE IF found.kind = "NoSuchElementException"
         THEN [raised |-> "none", value |-> <<>>]
         ELSE [raised |-> found.kind, value |-> <<>>]

\* a list item of the experience or education section: what its two lookups give
SectionItem(first, second) == [first |-> first, second |-> second]

\* the section element with its list items
SectionFound(items) == [kind |-> "element", items |-> items]

\* the items of a section that both inner lookups read; any exception inside
\* the inner try skips the item
items_read(section, n) ==
    LET both(item) == item.first.kind = "element" /\ item.second.kind = "element"
    IN  SelectSeq(Prefix(section.items, n), both)

\* LinkedInScraper._extract_experience: "title at company" of the first three
\* items, joined by "; "; "" on any exception
extract_experience(section) ==
    IF section.kind # "element" THEN <<>>
    ELSE LET entry(item) == Strip(item.first.text) \o <<" ", "a", "t", " ">>
                                \o Strip(item.second.text)
         IN  Join(<<";", " ">>, MapSeq(entry, items_read(section, 3)))

\* LinkedInScraper._extract_education: "degree from school" of the first two
\* items, joined by "; "; "" on any exception
extract_education(section) ==
    IF section.kind # "element" THEN <<>>
    ELSE LET entry(item) == Strip(item.second.text) \o <<" ", "f", "r", "o", "m", " ">>
                                \o Strip(item.first.text)
         IN  Join(<<";", " ">>, MapSeq(entry, items_read(section, 2)))

\* the skills page behind the skills link, with the texts of its elements
SkillsFound(texts) == [kind |-> "element", texts |-> texts]

\* LinkedInScraper._extract_skills: the non-blank stripped texts; [] on any
\* exception
extract_skills(link) ==
    IF link.kind # "element" THEN <<>>
    ELSE LET nonblank(t) == t # <<>>
         IN  SelectSeq(MapSeq(Strip, link.texts), nonblank)

\* LinkedInScraper.scrape_profile: the ProfileData, or NoValue where the method
\* catches an exception and returns None
scrape_profile(self_targets, profile_url, pg) ==
    LET name            == extract_text(pg.name)
        headline        == extract_text(pg.headline)
        location        == extract_text(pg.location)
        current_company == extract_text(pg.current_company)
        about           == extract_text(pg.about)
        connections     == extract_text(pg.connections)
        skills          == extract_skills(pg.skills)
        m               == calculate_skill_match(self_targets, skills, <<>>)
        reads           == {name, headline, location, current_company, about, connections}
    IN  IF pg.get # "ok" \/ \E r \in reads : r.raised # "none"
        THEN NoValue
        ELSE [name                    |-> Or(name.value, TextNA),
              headline                |-> headline.value,
              location                |-> location.value,
              profile_url             |-> profile_url,
              current_company         |-> current_company.value,
              experience              |-> extract_experience(pg.experience),
              skills                  |-> skills,
              skill_match_score       |-> m.score,
              required_skills_matched |-> m.matched,
              total_skills_count      |-> Len(skills),
              about                   |-> about.value,
              education               |-> extract_education(pg.education),
              connections             |-> connections.value]

\* the three outcomes of a lookup of a text field
FieldLookups == {LookupMissing, LookupFailed, LookupText(TextAnn)}

\* the outcomes of a lookup taken without the failure case
PlainLookups == {LookupMissing, LookupText(TextDev)}

\* the experience and education sections a page may show
SectionInputs ==
    {LookupMissing,
     LookupFailed,
     SectionFound(<< SectionItem(LookupText(TextDev), LookupText(TextAcme)) >>),
     SectionFound(<< SectionItem(LookupText(TextDev), LookupFailed),
                     SectionItem(LookupText(TextDev), LookupText(TextAcme)) >>)}

\* the skills link that click() follows to a skills page whose elements
\* cannot be read: find_elements or elem.text raises
SkillsUnreadable == [kind |-> "unreadable"]

\* what the skills link of a page may lead to
SkillsInputs ==
    {LookupMissing, SkillsFound(<<SkillPaddedSql, SkillBlank>>), SkillsUnreadable}

\* driver.back() on a history: the page before the one shown is shown again;
\* "earlier" stands for every page before those the history lists
Back(h) == IF Len(h) > 1 THEN SubSeq(h, 1, Len(h) - 1) ELSE h

\* whether a driver.get brought up the new page: it did if it returned, and
\* it may or may not have if it raised
Navigations(get_raised) == IF get_raised THEN BOOLEAN ELSE {TRUE}

\* driver.get(url) on a history, shown being the page the URL leads to
Get(h, shown, navigated) == IF navigated THEN Append(h, shown) ELSE h

\* the history when LinkedInScraper._extract_skills returns: without the link
\* nothing is opened; click() opens the skills page, and driver.back() is
\* reached only if reading that page raised nothing
history_after_extract_skills(h, link) ==
    IF link.kind = "element" THEN Back(Append(h, "skills"))
    ELSE IF link.kind = "unreadable" THEN Append(h, "skills")
    ELSE h

\* the history when LinkedInScraper.scrape_profile returns: _extract_skills
\* is reached if driver.get and the five lookups before it raised nothing
history_after_scrape_profile(h, pg, navigated) ==
    LET before_skills == {extract_text(pg.name), extract_text(pg.headline),
                          extract_text(pg.location),
                          extract_text(pg.current_company),
                          extract_text(pg.about)}
    IN  IF pg.get # "ok" THEN Get(h, "profile", navigated)
        ELSE IF \E r \in before_skills : r.raised # "none"
             THEN Get(h, "profile", TRUE)
        ELSE history_after_extract_skills(Get(h, "profile", TRUE), pg.skills)

\* the profile pages scrape_profile is run on
ProfilePages ==
    [get             : {"ok", "raises"},
     name            : FieldLookups,
     headline        : FieldLookups,
     location        : PlainLookups,
     current_company : PlainLookups,
     about           : PlainLookups,
     connections     : FieldLookups,
     experience      : SectionInputs,
     education       : {LookupMissing, SectionFound(<< SectionItem(LookupText(TextAcme),
                                                                     LookupText(TextDev)) >>)},
     skills          : SkillsInputs]

InitProfile ==
    /\ InitObject
    /\ scraper = "LinkedInScraper"
    /\ NoScoreCall
    /\ NoQuery
    /\ NoCard
    /\ NoSearch
    /\ NoProfile
    /\ NoProfileSearch
    /\ NoNavigation
    /\ NoService

\* profile = scraper.scrape_profile(profile_url)
ScrapeProfile ==
    /\ pc = "idle"
    /\ \E pg \in ProfilePages :
          /\ profile_page' = pg
          /\ profile' = scrape_profile(target_skills, ProfileUrl, pg)
          /\ \E navigated \in Navigations(pg.get # "ok") :
                history' = history_after_scrape_profile(history, pg, navigated)
    /\ pc' = "returned"
    /\ op' = "scrape_profile"
    /\ UNCHANGED <<objVars, scoreVars, queryVars, cardVars, jobsVars,
                   detailed_info, searchVars, serviceVars>>

\* the caller takes the profile; the next call is followed from a history of
\* its own
ReturnProfile ==
    /\ pc = "returned"
    /\ op = "scrape_profile"
    /\ pc' = "idle"
    /\ op' = "none"
    /\ profile_page' = NoValue
    /\ profile' = NoValue
    /\ history' = <<"earlier">>
    /\ UNCHANGED <<objVars, scoreVars, queryVars, cardVars, jobsVars,
                   detailed_info, searchVars, serviceVars>>

NextProfile ==
    \/ ScrapeProfile
    \/ ReturnProfile

SpecProfile == InitProfile /\ [][NextProfile]_vars

-----------------------------------------------------------------------------
(* extract_detailed_profile of linkedin_scraper_final.py: the profile page *)
(* is read section by section, each section by its own list of selectors.  *)

NotAvailable == <<"N", "o", "t", " ", "a", "v", "a", "i", "l", "a", "b", "l", "e">>

KeywordAbout == <<"A", "b", "o", "u", "t">>

ExtractionFailed ==
    <<"P", "r", "o", "f", "i", "l", "e", " ", "d", "e", "t", "a", "i", "l", "s", " ",
      "e", "x", "t", "r", "a", "c", "t", "i", "o", "n", " ", "f", "a", "i", "l", "e", "d">>

\* len(about_text) > 10
MinAboutLen == 10

\* len(text) > 20, the test of the about fallback on the parent's text
MinParentLen == 20

\* len(headline_text) > 5
MinHeadlineLen == 5

\* len(skill_text) > 1
MinSkillLen == 1

\* experience_items[:3]
MaxExperienceItems == 3

\* education_items[:2]
MaxEducationItems == 2

\* skills[:15]
MaxDetailSkills == 15

\* found_skills[:10]
MaxCommonSkills == 10

\* detailed_info['about'][:200]
SummaryAboutLen == 200

\* the stripped text of the element a lookup found; an exception of the lookup
\* is caught by the bare except around it and leaves nothing
element_text(found) == IF found.kind = "element" THEN Strip(found.text) ELSE <<>>

RECURSIVE Replace(_, _, _)
\* str.replace(old, new), old not empty
Replace(s, old, new) ==
    IF Len(s) < Len(old) THEN s
    ELSE IF SubSeq(s, 1, Len(old)) = old
         THEN new \o Replace(SubSeq(s, Len(old) + 1, Len(s)), old, new)
         ELSE <<Head(s)>> \o Replace(Tail(s), old, new)

\* detailed_info['about'] after the about block: the first text the loop over
\* about_selectors accepts; without one, the first text the fallback over the
\* parents of the elements mentioning 'About' accepts; without one, the sentinel
detail_about(dp) ==
    LET startswith(s, prefix) ==
            Len(s) >= Len(prefix) /\ SubSeq(s, 1, Len(prefix)) = prefix
        accepts(t) == /\ t # <<>>
                      /\ Len(t) > MinAboutLen
                      /\ ~startswith(t, KeywordAbout)
        direct == SelectSeq(MapSeq(element_text, dp.about), accepts)
        cleaned(found) ==
            LET t == element_text(found)
            IN  IF Len(t) > MinParentLen /\ In(KeywordAbout, t)
                THEN Strip(Replace(t, KeywordAbout, <<>>))
                ELSE <<>>
        nonempty(t) == t # <<>>
        fallback ==
            IF \/ dp.page_source.kind # "element"
               \/ ~In(KeywordAbout, dp.page_source.text)
               \/ dp.about_sections.kind # "elements"
            THEN <<>>
            ELSE SelectSeq(MapSeq(cleaned, dp.about_sections.parents), nonempty)
    IN  IF direct # <<>> THEN Head(direct)
        ELSE IF fallback # <<>> THEN Head(fallback)
        ELSE NotAvailable

\* a section element with its li.artdeco-list__item items and its li items
DetailSection(items, alt_items) ==
    [kind |-> "element", items |-> items, alt_items |-> alt_items]

\* the items a section's entries are read from
section_items(section, n) ==
    IF Prefix(section.items, n) # <<>> THEN Prefix(section.items, n)
    ELSE Prefix(section.alt_items, n)

\* the loop over title_selectors (school_selectors): the first non-blank text
first_text(lookups) ==
    LET nonblank(t) == t # <<>>
        found == SelectSeq(MapSeq(element_text, lookups), nonblank)
    IN  IF found = <<>> THEN <<>> ELSE Head(found)

\* the loop over company_selectors (degree_selectors): the first non-blank
\* text that differs from the title; without one, the last text read
second_text(lookups, first) ==
    LET isElement(found) == found.kind = "element"
        seen == MapSeq(element_text, SelectSeq(lookups, isElement))
        accepts(t) == t # <<>> /\ t # first
        accepted == SelectSeq(seen, accepts)
    IN  IF accepted # <<>> THEN Head(accepted)
        ELSE IF seen = <<>> THEN <<>> ELSE seen[Len(seen)]

\* detailed_info['experience'] after the experience block: the entries of the
\* first section that has any, joined; without one, the sentinel
detail_experience(dp) ==
    LET entry(item) ==
            LET title   == first_text(item.first)
                company == second_text(item.second, title)
            IN  IF title # <<>> /\ company # <<>>
                THEN title \o <<" ", "a", "t", " ">> \o company
                ELSE title
        nonblank(t) == t # <<>>
        experience_list(section) ==
            IF section.kind # "element" THEN <<>>
            ELSE SelectSeq(MapSeq(entry, section_items(section, MaxExperienceItems)),
                           nonblank)
        nonempty(l) == l # <<>>
        found == SelectSeq(MapSeq(experience_list, dp.experience), nonempty)
    IN  IF found = <<>> THEN NotAvailable ELSE Join(<<";", " ">>, Head(found))

\* detailed_info['education'] after the education block
detail_education(dp) ==
    LET entry(item) ==
            LET school == first_text(item.first)
                degree == second_text(item.second, school)
            IN  IF school # <<>> /\ degree # <<>>
                THEN degree \o <<" ", "f", "r", "o", "m", " ">> \o school
                ELSE school
        nonblank(t) == t # <<>>
        education_list(section) ==
            IF section.kind # "element" THEN <<>>
            ELSE SelectSeq(MapSeq(entry, section_items(section, MaxEducationItems)),
                           nonblank)
        nonempty(l) == l # <<>>
        found == SelectSeq(MapSeq(education_list, dp.education), nonempty)
    IN  IF found = <<>> THEN NotAvailable ELSE Join(<<";", " ">>, Head(found))

\* the list common_skills of the skills fallback
common_skills ==
    << <<"p", "y", "t", "h", "o", "n">>,
       <<"j", "a", "v", "a">>,
       <<"j", "a", "v", "a", "s", "c", "r", "i", "p", "t">>,
       <<"s", "q", "l">>,
       <<"h", "t", "m", "l">>,
       <<"c", "s", "s">>,
       <<"r", "e", "a", "c", "t">>,
       <<"a", "n", "g", "u", "l", "a", "r">>,
       <<"v", "u", "e">>,
       <<"n", "o", "d", "e", ".", "j", "s">>,
       <<"d", "j", "a", "n", "g", "o">>,
       <<"f", "l", "a", "s", "k">>,
       <<"s", "p", "r", "i", "n", "g">>,
       <<"o", "r", "a", "c", "l", "e">>,
       <<"m", "y", "s", "q", "l">>,
       <<"p", "o", "s", "t", "g", "r", "e", "s", "q", "l">>,
       <<"m", "o", "n", "g", "o", "d", "b">>,
       <<"a", "w", "s">>,
       <<"a", "z", "u", "r", "e">>,
       <<"g", "c", "p">>,
       <<"d", "o", "c", "k", "e", "r">>,
       <<"k", "u", "b", "e", "r", "n", "e", "t", "e", "s">>,
       <<"g", "i", "t">>,
       <<"a", "g", "i", "l", "e">>,
       <<"s", "c", "r", "u", "m">> >>

\* str.title()
Title(s) ==
    LET isLetter(c) == c \in Range(UpperLetters) \cup Range(LowerLetters)
        upper(c) ==
            IF \E i \in 1..Len(LowerLetters) : LowerLetters[i] = c
            THEN UpperLetters[CHOOSE i \in 1..Len(LowerLetters) : LowerLetters[i] = c]
            ELSE c
    IN  [i \in 1..Len(s) |->
            IF i = 1 \/ ~isLetter(s[i - 1]) THEN upper(s[i]) ELSE LowerChar(s[i])]

RECURSIVE Unique(_)
\* xs with only the first occurrence of each element kept
Unique(xs) ==
    IF xs = <<>> THEN <<>>
    ELSE LET before == Unique(SubSeq(xs, 1, Len(xs) - 1))
             last   == xs[Len(xs)]
         IN  IF \E i \in 1..Len(before) : before[i] = last
             THEN before
             ELSE Append(before, last)

\* the skills link a selector finds: what click() does, what each of the
\* skill selectors finds on the page it opens, what driver.back() does
SkillsLink(click, lists, back) ==
    [kind |-> "element", click |-> click, lists |-> lists, back |-> back]

RECURSIVE skills_from_links(_, _)
\* detailed_info['skills'] after the loop over skills_selectors, sofar being
\* its value before the loop reads links; <<>> while skills_found is False
skills_from_links(links, sofar) ==
    IF links = <<>> THEN sofar
    ELSE LET link == Head(links)
             accepts(t) == t # <<>> /\ Len(t) > MinSkillLen
             read(found) ==
                 IF found.kind = "elements"
                 THEN Unique(SelectSeq(MapSeq(Strip, found.texts), accepts))
                 ELSE <<>>
             nonempty(l) == l # <<>>
             lists == SelectSeq(MapSeq(read, link.lists), nonempty)
             now == IF lists # <<>>
                    THEN Join(<<",", " ">>, Prefix(Head(lists), MaxDetailSkills))
                    ELSE sofar
         IN  IF link.kind # "element" \/ link.click # "ok"
             THEN skills_from_links(Tail(links), sofar)
             ELSE IF link.back = "ok" THEN now
             ELSE skills_from_links(Tail(links), now)

\* the skills block with the keyword fallback run whatever the links gave, its
\* keywords joined to theirs
detail_skills_merged(dp) ==
    LET linked == skills_from_links(dp.skills, <<>>)
        mentioned(skill) == In(skill, Lower(dp.page_source.text))
        found_skills ==
            IF dp.page_source.kind # "element" THEN <<>>
            ELSE MapSeq(Title, SelectSeq(common_skills, mentioned))
        sniffed == Join(<<",", " ">>, Prefix(found_skills, MaxCommonSkills))
    IN  IF linked # <<>> /\ found_skills # <<>> THEN linked \o <<",", " ">> \o sniffed
        ELSE IF linked # <<>> THEN linked
        ELSE IF found_skills # <<>> THEN sniffed
        ELSE NotAvailable

\* detailed_info['skills'] after the skills block: what the links gave; without
\* it the common skills the page source mentions; without any, the sentinel
detail_skills(dp) ==
    LET linked == skills_from_links(dp.skills, <<>>)
        mentioned(skill) == In(skill, Lower(dp.page_source.text))
        found_skills ==
            IF dp.page_source.kind # "element" THEN <<>>
            ELSE MapSeq(Title, SelectSeq(common_skills, mentioned))
    IN  IF linked # <<>> THEN linked
        ELSE IF found_skills # <<>>
             THEN Join(<<",", " ">>, Prefix(found_skills, MaxCommonSkills))
        ELSE NotAvailable

\* " | ".join(summary_parts)
profile_summary(info) ==
    LET part(field, label, value) ==
            IF field # NotAvailable THEN <<label \o value>> ELSE <<>>
    IN  Join(<<" ", "|", " ">>,
             part(info["headline"], <<"H", "e", "a", "d", "l", "i", "n", "e", ":", " ">>, info["headline"])
             \o part(info["about"], <<"A", "b", "o", "u", "t", ":", " ">>,
                     Prefix(info["about"], SummaryAboutLen) \o <<".", ".", ".">>)
             \o part(info["experience"], <<"E", "x", "p", "e", "r", "i", "e", "n", "c", "e", ":", " ">>, info["experience"])
             \o part(info["education"], <<"E", "d", "u", "c", "a", "t", "i", "o", "n", ":", " ">>, info["education"])
             \o part(info["skills"], <<"S", "k", "i", "l", "l", "s", ":", " ">>, info["skills"]))

\* detailed_info as extract_detailed_profile creates it
EmptyInfo ==
    [about |-> <<>>, experience |-> <<>>, education |-> <<>>, skills |-> <<>>,
     connections |-> <<>>, profile_summary |-> <<>>]

\* LinkedInScraper.extract_detailed_profile of linkedin_scraper_final.py on the
\* page dp that driver.get(profile_url) brings up.  The headline block assigns
\* detailed_info['headline'] only when a selector's text qualifies; without
\* the key the summary's first test raises KeyError, which the outer except
\* turns into the failure summary.
extract_detailed_profile(dp) ==
    IF dp.load = "raises"
    THEN [EmptyInfo EXCEPT !.profile_summary = ExtractionFailed]
    ELSE LET read == [about           |-> detail_about(dp),
                      experience      |-> detail_experience(dp),
                      education       |-> detail_education(dp),
                      skills          |-> detail_skills(dp),
                      connections     |-> IF dp.connections.kind = "element"
                                          THEN Strip(dp.connections.text)
                                          ELSE NotAvailable,
                      profile_summary |-> <<>>]
             accepts(t) == t # <<>> /\ Len(t) > MinHeadlineLen
             headline == SelectSeq(MapSeq(element_text, dp.headline), accepts)
         IN  IF headline = <<>>
             THEN [read EXCEPT !.profile_summary = ExtractionFailed]
             ELSE LET info == [about           |-> read.about,
                               experience      |-> read.experience,
                               education       |-> read.education,
                               skills          |-> read.skills,
                               connections     |-> read.connections,
                               profile_summary |-> <<>>,
                               headline        |-> Head(headline)]
                  IN  [info EXCEPT !.profile_summary = profile_summary(info)]

RECURSIVE Split(_, _)
\* str.split(c) for a one-character separator c
Split(s, c) ==
    IF \A i \in 1..Len(s) : s[i] # c THEN <<s>>
    ELSE LET i == SetMin({j \in 1..Len(s) : s[j] = c})
         IN  <<SubSeq(s, 1, i - 1)>> \o Split(SubSeq(s, i + 1, Len(s)), c)

\* [s.strip() for s in detailed_info['skills'].split(',')]
skills_list(skills) == MapSeq(Strip, Split(skills, ","))

RECURSIVE history_after_links(_, _)
\* the history after the loop over skills_selectors: click() opens a skills
\* page; a driver.back() that returns ends the loop on the page before it, one
\* that raises leaves the skills page shown and the loop goes on from there
history_after_links(links, h) ==
    IF links = <<>> THEN h
    ELSE LET link == Head(links)
         IN  IF link.kind # "element" \/ link.click # "ok"
             THEN history_after_links(Tail(links), h)
             ELSE IF link.back = "ok" THEN Back(Append(h, "skills"))
             ELSE history_after_links(Tail(links), Append(h, "skills"))

\* the history when extract_detailed_profile returns: driver.get, the skills
\* links, and the one driver.back() of the normal path or of the except clause
detail_history(dp, h, navigated) ==
    IF dp.load = "raises" THEN Back(Get(h, "profile", navigated))
    ELSE Back(history_after_links(dp.skills, Get(h, "profile", TRUE)))

\* the profile pages extract_detailed_profile is run on: whether the page
\* loads, and what each lookup of each block finds on it
DetailPages ==
    LET HiThere      == <<"H", "i", " ", "t", "h", "e", "r", "e">>
        Pipelines    == <<" ", "I", " ", "b", "u", "i", "l", "d", " ", "d", "a", "t", "a", " ", "p", "i", "p", "e", "l", "i", "n", "e", "s", " ">>
        AboutParent  == <<"A", "b", "o", "u", "t", " ", "I", " ", "b", "u", "i", "l", "d", " ", "d", "a", "t", "a", " ", "p", "i", "p", "e", "l", "i", "n", "e", "s">>
        ShortParent  == <<"A", "b", "o", "u", "t", " ", "A", "b", "o", "u", "t", " ", "A", "b", "o", "u", "t", " ", "A", "b", "o", "u", "t", " ", "H", "i">>
        SqlDeveloper == <<"S", "Q", "L", " ", "D", "e", "v", "e", "l", "o", "p", "e", "r">>
        Connections  == <<"5", "0", "0", "+">>
        SourceAbout  == <<"<", "h", "2", ">", "A", "b", "o", "u", "t", "<", "/", "h", "2", ">", " ", "s", "q", "l", " ", "a", "n", "d", " ", "N", "o", "d", "e", ".", "j", "s">>
        SourcePlain  == <<"<", "p", ">", "p", "r", "o", "f", "i", "l", "e", "<", "/", "p", ">">>
        DevAtAcme == SectionItem(<<LookupMissing, LookupText(TextDev)>>,
                                 <<LookupText(TextDev), LookupText(TextAcme)>>)
        DevOnly   == SectionItem(<<LookupText(TextDev)>>, <<LookupText(TextDev)>>)
        Untitled  == SectionItem(<<LookupFailed>>, <<LookupText(TextAcme)>>)
        Elements(texts) == [kind |-> "elements", texts |-> texts]
    IN  [load           : {"ready", "timeout", "raises"},
         about          : {<<LookupMissing, LookupFailed>>,
                           <<LookupText(HiThere), LookupText(Pipelines)>>},
         page_source    : {LookupText(SourceAbout), LookupText(SourcePlain),
                           LookupFailed},
         about_sections : {LookupFailed,
                           [kind |-> "elements",
                            parents |-> <<LookupText(AboutParent)>>],
                           [kind |-> "elements",
                            parents |-> <<LookupFailed, LookupText(ShortParent)>>]},
         experience     : {<<LookupMissing>>,
                           <<LookupFailed, DetailSection(<<>>, <<Untitled, DevOnly>>)>>,
                           <<DetailSection(<<DevAtAcme, DevOnly>>, <<>>)>>},
         education      : {<<LookupMissing>>,
                           <<DetailSection(<<DevAtAcme>>, <<>>)>>},
         skills         : {<<LookupMissing>>,
                           <<SkillsLink("raises", <<>>, "ok"),
                             SkillsLink("ok",
                                        <<LookupFailed,
                                          Elements(<<SkillPaddedSql, <<"x">>,
                                                     <<"s", "q", "l">>, SkillPython>>)>>,
                                        "ok")>>,
                           <<SkillsLink("ok", <<Elements(<<SkillPython>>)>>, "raises"),
                             SkillsLink("ok", <<Elements(<<SkillBlank>>)>>, "ok")>>},
         connections    : {LookupMissing, LookupText(Connections),
                           LookupText(SkillBlank)},
         headline       : {<<LookupMissing, LookupFailed>>,
                           <<LookupText(TextDev), LookupText(SqlDeveloper)>>}]

InitDetail ==
    /\ InitObject
    /\ scraper = "LinkedInScraperFinal"
    /\ NoScoreCall
    /\ NoQuery
    /\ NoCard
    /\ NoSearch
    /\ NoProfile
    /\ NoProfileSearch
    /\ history = <<"earlier", "results">>
    /\ NoService

\* detailed_info = scraper.extract_detailed_profile(profile_url)
ExtractDetailedProfile ==
    /\ pc = "idle"
    /\ \E dp \in DetailPages :
          /\ profile_page' = dp
          /\ detailed_info' = extract_detailed_profile(dp)
          /\ \E navigated \in Navigations(dp.load = "raises") :
                history' = detail_history(dp, history, navigated)
    /\ pc' = "returned"
    /\ op' = "extract_detailed_profile"
    /\ UNCHANGED <<objVars, scoreVars, queryVars, cardVars, jobsVars, profile,
                   searchVars, serviceVars>>

\* the caller takes the dict; the next call is made from the results page
\* again
ReturnDetail ==
    /\ pc = "returned"
    /\ op = "extract_detailed_profile"
    /\ pc' = "idle"
    /\ op' = "none"
    /\ profile_page' = NoValue
    /\ detailed_info' = NoValue
    /\ history' = <<"earlier", "results">>
    /\ UNCHANGED <<objVars, scoreVars, queryVars, cardVars, jobsVars, profile,
                   searchVars, serviceVars>>

NextDetail ==
    \/ ExtractDetailedProfile
    \/ ReturnDetail

SpecDetail == InitDetail /\ [][NextDetail]_vars

\* href.split('?')[0]: the URL without its query string
canonical_url(href) == Head(Split(href, "?"))

-----------------------------------------------------------------------------
(* search_profiles of linkedin_scraper_final.py: the cards of the results  *)
(* page are turned into ProfileData, each accepted one enriched from its   *)
(* profile page.                                                           *)

\* a card of the results page: what each selector finds in it, card.text, the
\* card's own href, the lookup of a link inside it (with that link's href),
\* and the profile page its URL leads to
SearchCard(found, raw_text, href, link, detail) ==
    [lookups  |-> [sel \in {"span.name-and-icon", ".search-result__title", "h3",
                            ".search-result__name", "[data-test-search-result-name]",
                            "p.search-result__info", ".search-result__headline",
                            ".search-result__subtitle", "p",
                            ".search-result__description",
                            "p.search-result__location", ".search-result__location",
                            "[data-test-search-result-location]",
                            "p.search-result__company", ".search-result__company",
                            "[data-test-search-result-company]"} |->
                      IF sel \in DOMAIN found THEN found[sel] ELSE LookupMissing],
     raw_text |-> raw_text,
     href     |-> href,
     link     |-> link,
     detail   |-> detail]

\* LinkedInScraper._extract_profile_url: the card's href, else the href of a
\* link inside it, without the query string; "" when neither holds '/in/'
extract_profile_url(c) ==
    LET usable(href) == href # NoText /\ In(<<"/", "i", "n", "/">>, href)
    IN  IF usable(c.href) THEN canonical_url(c.href)
        ELSE IF c.link.kind = "element" /\ usable(c.link.href)
             THEN canonical_url(c.link.href)
        ELSE <<>>

\* LinkedInScraper._extract_single_profile: the ProfileData of a card, or
\* NoValue for a card without a name
extract_single_profile(c, target_arg) ==
    LET startswith(s, prefix) ==
            Len(s) >= Len(prefix) /\ SubSeq(s, 1, Len(prefix)) = prefix
        cleaned(line) ==
            IF \/ Strip(line) = <<>>
               \/ startswith(Strip(line), <<"V", "i", "e", "w">>)
               \/ startswith(Strip(line), <<"C", "o", "n", "n", "e", "c", "t">>)
            THEN <<>>
            ELSE Strip(Replace(Strip(line), <<"V", "i", "e", "w", " ", "p", "r", "o", "f", "i", "l", "e">>, <<>>))
        accepts(t) == Len(t) > 2
        from_lines == SelectSeq(MapSeq(cleaned, Split(c.raw_text, "\n")), accepts)
        from_card == extract_text_from_card(c.lookups,
                         <<"span.name-and-icon", ".search-result__title", "h3",
                           ".search-result__name", "[data-test-search-result-name]">>)
        name == IF from_card # <<>> THEN from_card
                ELSE IF from_lines # <<>> THEN Head(from_lines)
                ELSE <<>>
        headline == extract_text_from_card(c.lookups,
                        <<"p.search-result__info", ".search-result__headline",
                          ".search-result__subtitle", "p",
                          ".search-result__description">>)
        location == extract_text_from_card(c.lookups,
                        <<"p.search-result__location", ".search-result__location",
                          ".search-result__subtitle",
                          "[data-test-search-result-location]">>)
        company == extract_text_from_card(c.lookups,
                       <<"p.search-result__company", ".search-result__company",
                         ".search-result__subtitle",
                         "[data-test-search-result-company]">>)
        m == calculate_skill_match_final(<<name, headline, company>>, target_arg)
    IN  IF name = <<>> THEN NoValue
        ELSE [name                    |-> name,
              headline                |-> Or(headline, TextNA),
              location                |-> Or(location, TextNA),
              profile_url             |-> Or(extract_profile_url(c), TextNA),
              current_company         |-> Or(company, TextNA),
              experience              |-> <<>>,
              skills                  |-> <<>>,
              skill_match_score       |-> m.score,
              required_skills_matched |-> m.matched,
              total_skills_count      |-> 0,
              about                   |-> <<>>,
              education               |-> <<>>,
              connections             |-> <<>>,
              raw_text                |-> c.raw_text,
              profile_summary         |-> <<>>,
              detailed_skills         |-> <<>>]

\* the update of an accepted record with the dict extract_detailed_profile
\* returned for it
with_detailed_info(profile_data, info, target_arg) ==
    LET updated == [profile_data EXCEPT
                       !.headline        = IF "headline" \in DOMAIN info
                                           THEN info["headline"] ELSE TextNA,
                       !.about           = info["about"],
                       !.experience      = info["experience"],
                       !.education       = info["education"],
                       !.connections     = info["connections"],
                       !.profile_summary = info["profile_summary"],
                       !.detailed_skills = info["skills"]]
        m == calculate_skill_match_final(skills_list(info["skills"]), target_arg)
    IN  IF info["skills"] # NotAvailable
        THEN [updated EXCEPT !.skill_match_score       = m.score,
                             !.required_skills_matched = m.matched,
                             !.total_skills_count      = Len(skills_list(info["skills"]))]
        ELSE updated

\* whether the loop of _extract_profiles_from_search_results opens the
\* profile page of an accepted record
has_profile_url(profile_data) ==
    profile_data.profile_url # <<>> /\ profile_data.profile_url # TextNA

\* the loop going over every card found, whatever the limit
cards_in_limit_all(cards, n) == cards

\* profile_cards[:limit], the cards the loop goes over
cards_in_limit(cards, n) == Prefix(cards, n)

\* the most cards a results page holds
MaxProfileCards == 4

\* the cards a results page may hold: one with every field whose profile page
\* can be read, one whose name is only in its text and that has no URL, one
\* whose profile page cannot be opened, and one without a name
ProfileCards ==
    LET PageRich ==
            [load           |-> "ready",
             about          |-> <<LookupMissing>>,
             page_source    |-> LookupFailed,
             about_sections |-> LookupFailed,
             experience     |-> <<LookupMissing>>,
             education      |-> <<LookupMissing>>,
             skills         |-> <<SkillsLink("ok",
                                             <<[kind  |-> "elements",
                                                texts |-> <<SkillSQL, SkillPython>>]>>,
                                             "ok")>>,
             connections    |-> LookupMissing,
             headline       |-> <<LookupText(<<"S", "Q", "L", " ", "D", "e", "v", "e", "l", "o", "p", "e", "r">>)>>]
        PageDown == [PageRich EXCEPT !.load = "raises"]
    IN  {SearchCard(("h3" :> LookupText(TextAnn))
                       @@ (".search-result__headline" :> LookupText(TitleSqlDev))
                       @@ (".search-result__company" :> LookupText(TextAcme)),
                    TextAnn, <<"h", "t", "t", "p", "s", ":", "/", "/", "x", "/", "i", "n", "/", "a", "n", "n", "?", "m", "i", "n", "i", "=", "1">>, LookupMissing, PageRich),
         SearchCard((".search-result__headline" :> LookupText(TextDev))
                       @@ (".search-result__company" :> LookupText(TextAcme)),
                    <<"V", "i", "e", "w", " ", "p", "r", "o", "f", "i", "l", "e", "\n", "B", "o", "b">>, NoText, LookupMissing, PageDown),
         SearchCard(("span.name-and-icon" :> LookupFailed)
                       @@ ("h3" :> LookupText(<<"E", "v", "e">>))
                       @@ ("p" :> LookupText(TextDev))
                       @@ (".search-result__company" :> LookupText(TextAcme)),
                    <<"E", "v", "e">>, NoText,
                    [kind |-> "element", href |-> <<"h", "t", "t", "p", "s", ":", "/", "/", "x", "/", "i", "n", "/", "e", "v", "e">>], PageDown),
         SearchCard(("h3" :> LookupText(SkillBlank)), <<>>, <<"h", "t", "t", "p", "s", ":", "/", "/", "x", "/", "i", "n", "/", "a", "n", "n", "?", "m", "i", "n", "i", "=", "1">>,
                    LookupMissing, PageRich)}

\* the limits search_profiles is called with
ProfileLimits == {1, 2, 4}

\* the results pages: whether the page loads, the cards the card selectors
\* find, and the links the fallback selector finds
ResultPages ==
    [load  : {"ready", "timeout", "raises"},
     cards : ListsUpTo(ProfileCards, MaxProfileCards),
     links : {<<>>}]
       \cup
    [load  : {"ready"},
     cards : {<<>>},
     links : ListsUpTo(ProfileCards, 1)]

\* the skills lists search_profiles is called with
ProfileSearchSkills == {<<SkillSQL>>, <<SkillSQL, SkillJava>>}

InitSearch ==
    /\ InitObject
    /\ NoScoreCall
    /\ NoQuery
    /\ NoCard
    /\ NoSearch
    /\ NoProfile
    /\ NoProfileSearch
    /\ NoNavigation
    /\ NoService

\* profiles = scraper.search_profiles(skills, location, experience, limit)
StartProfileSearch ==
    /\ pc = "idle"
    /\ scraper = "LinkedInScraperFinal"
    /\ \E skills \in ProfileSearchSkills, n \in ProfileLimits, rp \in ResultPages :
          /\ arg_skills' = skills
          /\ profile_limit' = n
          /\ results' = rp
    /\ pc' = "results"
    /\ op' = "search_profiles"
    /\ UNCHANGED <<objVars, scoreVars, request, raised, url, cardVars, jobsVars,
                   profileVars, profile_cards, next_profile, profiles,
                   detail_calls, navVars, serviceVars>>

\* driver.get(search_url) and the wait for the results container: a timeout
\* and any other exception end the search with []; otherwise the cards of the
\* first selector that finds any are taken, or else the profile links
LoadResults ==
    /\ pc = "results"
    /\ op = "search_profiles"
    /\ IF results.load = "ready"
       THEN /\ profile_cards' = IF results.cards # <<>> THEN results.cards
                                ELSE results.links
            /\ pc' = "cards"
       ELSE /\ profile_cards' = <<>>
            /\ pc' = "returned"
    /\ \E navigated \in Navigations(results.load = "raises") :
          history' = Get(history, "results", navigated)
    /\ UNCHANGED <<objVars, op, scoreVars, queryVars, cardVars, jobsVars,
                   profileVars, profile_limit, results, next_profile, profiles,
                   detail_calls, serviceVars>>

\* one pass of the loop over profile_cards[:limit]
ExtractNextProfile ==
    /\ pc = "cards"
    /\ op = "search_profiles"
    /\ next_profile <= Len(cards_in_limit(profile_cards, profile_limit))
    /\ LET c == profile_cards[next_profile]
           profile_data == extract_single_profile(c, arg_skills)
           opens == profile_data # NoValue /\ has_profile_url(profile_data)
       IN  /\ profiles' =
                 IF profile_data = NoValue THEN profiles
                 ELSE IF opens
                      THEN Append(profiles,
                                  with_detailed_info(profile_data,
                                                     extract_detailed_profile(c.detail),
                                                     arg_skills))
                      ELSE Append(profiles, profile_data)
           /\ detail_calls' = IF opens
                              THEN Append(detail_calls, profile_data.profile_url)
                              ELSE detail_calls
           /\ IF opens
              THEN \E navigated \in Navigations(c.detail.load = "raises") :
                      history' = detail_history(c.detail, history, navigated)
              ELSE history' = history
    /\ next_profile' = next_profile + 1
    /\ UNCHANGED <<objVars, pc, op, scoreVars, queryVars, cardVars, jobsVars,
                   profileVars, profile_limit, results, profile_cards,
                   serviceVars>>

\* the loop is over: return profiles
FinishProfiles ==
    /\ pc = "cards"
    /\ op = "search_profiles"
    /\ next_profile > Len(cards_in_limit(profile_cards, profile_limit))
    /\ pc' = "returned"
    /\ UNCHANGED <<objVars, op, scoreVars, queryVars, cardVars, jobsVars,
                   profileVars, searchVars, navVars, serviceVars>>

\* the caller takes the list
ReturnProfiles ==
    /\ pc = "returned"
    /\ op = "search_profiles"
    /\ pc' = "idle"
    /\ op' = "none"
    /\ arg_skills' = <<>>
    /\ profile_limit' = 0
    /\ results' = NoValue
    /\ profile_cards' = <<>>
    /\ next_profile' = 1
    /\ profiles' = <<>>
    /\ detail_calls' = <<>>
    /\ history' = <<"earlier">>
    /\ UNCHANGED <<objVars, scoreVars, request, raised, url, cardVars, jobsVars,
                   profileVars, serviceVars>>

NextProfiles ==
    \/ StartProfileSearch
    \/ LoadResults
    \/ ExtractNextProfile
    \/ FinishProfiles
    \/ ReturnProfiles

-----------------------------------------------------------------------------
(* scrape_profiles of linkedin_profile_scraper.py: the profile URLs of the *)
(* results page are cut to max_profiles, each profile page is read, and    *)
(* the records are sorted by score.                                        *)

\* a container of the results page: the href of its link, and the profile
\* page that URL leads to: whether driver.get and the wait succeed, the text of
\* the h1, the texts of the skill elements
Candidate(href, get, wait, name, skills) ==
    [href |-> href,
     page |-> [get |-> get, wait |-> wait, name |-> name, skills |-> skills]]

\* LinkedInProfileScraper.search_profiles: the cleaned URLs of the containers
\* whose href holds '/in/', each with the page it leads to
search_profiles(containers) ==
    LET startswith(s, prefix) ==
            Len(s) >= Len(prefix) /\ SubSeq(s, 1, Len(prefix)) = prefix
        is_profile(c) == c.href # NoText /\ c.href # <<>> /\ In(<<"/", "i", "n", "/">>, c.href)
        cleaned(c) ==
            [url  |-> canonical_url(IF startswith(c.href, <<"h", "t", "t", "p">>) THEN c.href
                                    ELSE <<"h", "t", "t", "p", "s", ":", "/", "/", "w", "w", "w", ".", "l", "i", "n", "k", "e", "d", "i", "n", ".", "c", "o", "m">> \o c.href),
             page |-> c.page]
    IN  MapSeq(cleaned, SelectSeq(containers, is_profile))

\* the targets extract_profile_data finds among the skills of a page
page_matched_skills(self_targets, pg) ==
    Range(profile_matched_skills(page_skills(pg.skills), self_targets))

\* LinkedInProfileScraper.extract_profile_data, for the fields the model's page
\* holds; matched_skills is list(set(matched_skills)) in the order the set
\* yielded.  driver.get is outside the try: its exception reaches the caller.
extract_profile_data(self_targets, profile_url, pg, matched_skills) ==
    IF pg.get = "raises" THEN [raised |-> TRUE, value |-> NoValue]
    ELSE IF pg.wait # "ok"
    THEN [raised |-> FALSE,
          value  |-> [name                    |-> <<"U", "n", "k", "n", "o", "w", "n">>,
                      profile_url             |-> profile_url,
                      skills                  |-> <<>>,
                      total_skills_count      |-> 0,
                      required_skills_matched |-> <<>>,
                      skill_match_score       |-> ZeroScore]]
    ELSE [raised |-> FALSE,
          value  |-> [name                    |-> IF pg.name # NoText
                                                  THEN Strip(pg.name)
                                                  ELSE <<"U", "n", "k", "n", "o", "w", "n">>,
                      profile_url             |-> profile_url,
                      skills                  |-> page_skills(pg.skills),
                      total_skills_count      |-> Len(page_skills(pg.skills)),
                      required_skills_matched |-> matched_skills,
                      skill_match_score       |->
                          [num |-> 100 * Len(matched_skills),
                           den |-> Len(self_targets)]]]

RECURSIVE sort_by_score(_)
\* profiles_data.sort(key=lambda x: x.skill_match_score, reverse=True): the
\* stable sort, a record going behind the records of the same score that
\* were before it
sort_by_score(ps) ==
    IF ps = <<>> THEN <<>>
    ELSE LET before == sort_by_score(SubSeq(ps, 1, Len(ps) - 1))
             last   == ps[Len(ps)]
             ahead(p) == p.skill_match_score.num * last.skill_match_score.den
                            >= last.skill_match_score.num * p.skill_match_score.den
             behind(p) == ~ahead(p)
         IN  SelectSeq(before, ahead) \o <<last>> \o SelectSeq(before, behind)

\* the most containers a results page holds
MaxContainers == 3

\* the containers a results page may hold: two profiles of the same score, a
\* profile without a name, a profile page that does not load in time, one that
\* cannot be opened, and a link that is no profile
Candidates ==
    {Candidate(<<"/", "i", "n", "/", "a", "n", "n", "?", "x", "=", "1">>, "ok", "ok", TextAnn, <<SkillSQL>>),
     Candidate(<<"h", "t", "t", "p", "s", ":", "/", "/", "x", "/", "i", "n", "/", "b", "o", "b">>, "ok", "ok", TextBob, <<SkillPaddedSql>>),
     Candidate(<<"h", "t", "t", "p", "s", ":", "/", "/", "x", "/", "i", "n", "/", "c", "y">>, "ok", "ok", NoText, <<SkillOracleSQL, SkillBlank>>),
     Candidate(<<"h", "t", "t", "p", "s", ":", "/", "/", "x", "/", "i", "n", "/", "d", "e", "e">>, "ok", "timeout", NoText, <<>>),
     Candidate(<<"h", "t", "t", "p", "s", ":", "/", "/", "x", "/", "i", "n", "/", "e", "v", "e">>, "raises", "ok", NoText, <<>>),
     Candidate(<<"h", "t", "t", "p", "s", ":", "/", "/", "x", "/", "c", "o", "m", "p", "a", "n", "y", "/", "a", "c", "m", "e">>, "ok", "ok", NoText, <<>>)}

\* the values scrape_profiles is called with as max_profiles
ScrapeLimits == {1, 2}

\* a run of scrape_profiles: whether setup_driver and login succeed, and the
\* containers of the results page
ScrapeRuns ==
    [start : {"ok"}, containers : ListsUpTo(Candidates, MaxContainers)]
       \cup
    [start : {"no browser", "no login"}, containers : {<<>>}]

\* profiles = scraper.scrape_profiles(search_url, max_profiles)
StartScrape ==
    /\ pc = "idle"
    /\ scraper = "LinkedInProfileScraper"
    /\ \E n \in ScrapeLimits, run \in ScrapeRuns :
          /\ profile_limit' = n
          /\ results' = run
    /\ pc' = "login"
    /\ op' = "scrape_profiles"
    /\ UNCHANGED <<objVars, scoreVars, queryVars, cardVars, jobsVars,
                   profileVars, profile_cards, next_profile, profiles,
                   detail_calls, navVars, serviceVars>>

\* setup_driver, login, search_profiles and the cut to max_profiles; an
\* exception of setup_driver and a failed login end the run with []
CollectUrls ==
    /\ pc = "login"
    /\ op = "scrape_profiles"
    /\ IF results.start = "ok"
       THEN /\ profile_cards' = Prefix(search_profiles(results.containers),
                                       profile_limit)
            /\ pc' = "cards"
       ELSE /\ profile_cards' = <<>>
            /\ pc' = "returned"
    /\ UNCHANGED <<objVars, op, scoreVars, queryVars, cardVars, jobsVars,
                   profileVars, profile_limit, results, next_profile, profiles,
                   detail_calls, navVars, serviceVars>>

\* one pass of the loop over profile_urls
ExtractNextProfileData ==
    /\ pc = "cards"
    /\ op = "scrape_profiles"
    /\ next_profile <= Len(profile_cards)
    /\ LET item == profile_cards[next_profile]
       IN  \E matched_skills \in SeqsOfSet(page_matched_skills(target_skills, item.page)) :
              LET r == extract_profile_data(target_skills, item.url, item.page,
                                            matched_skills)
              IN  profiles' = IF r.raised THEN profiles ELSE Append(profiles, r.value)
    /\ detail_calls' = Append(detail_calls, profile_cards[next_profile].url)
    /\ next_profile' = next_profile + 1
    /\ UNCHANGED <<objVars, pc, op, scoreVars, queryVars, cardVars, jobsVars,
                   profileVars, profile_limit, results, profile_cards, navVars,
                   serviceVars>>

\* the loop is over: the list is sorted and returned
FinishScrape ==
    /\ pc = "cards"
    /\ op = "scrape_profiles"
    /\ next_profile > Len(profile_cards)
    /\ profiles' = sort_by_score(profiles)
    /\ pc' = "returned"
    /\ UNCHANGED <<objVars, op, scoreVars, queryVars, cardVars, jobsVars,
                   profileVars, profile_limit, results, profile_cards,
                   next_profile, detail_calls, navVars, serviceVars>>

\* the caller takes the list
ReturnScrape ==
    /\ pc = "returned"
    /\ op = "scrape_profiles"
    /\ pc' = "idle"
    /\ op' = "none"
    /\ profile_limit' = 0
    /\ results' = NoValue
    /\ profile_cards' = <<>>
    /\ next_profile' = 1
    /\ profiles' = <<>>
    /\ detail_calls' = <<>>
    /\ UNCHANGED <<objVars, scoreVars, queryVars, cardVars, jobsVars,
                   profileVars, navVars, serviceVars>>

NextScrape ==
    \/ StartScrape
    \/ CollectUrls
    \/ ExtractNextProfileData
    \/ FinishScrape
    \/ ReturnScrape

\* the three searches, each of its own scraper class
NextSearch ==
    \/ NextJobs
    \/ NextProfiles
    \/ NextScrape

SpecSearch == InitSearch /\ [][NextSearch]_vars

-----------------------------------------------------------------------------
(* The /linkedin/search handler of app.py.  FastAPI has parsed the request *)
(* body into a JobSearchRequest before the handler runs; the scraper the   *)
(* handler awaits is seen from the handler's side only, by its outcome.    *)

\* the requests the handler is called with
HandlerRequests ==
    [skills           : {<<>>, <<SkillPython>>, <<SkillPython, SkillPaddedDjango>>},
     location         : LocationInputs,
     experience_level : {"", "mid_senior"},
     job_type         : {""},
     company          : {<<>>},
     limit            : LimitInputs]

\* what `await linkedin_scraper.search_jobs(search_request)` does: it gives a
\* response, of a search that succeeded or failed, or it raises
ScraperOutcomes == {"success", "failure", "raises"}

\* the classes of the exceptions raised in the handler's try block that its
\* `except Exception` clause catches: HTTPException derives from Exception
CaughtAsException == {"HTTPException", "Exception"}

\* search_linkedin_jobs of app.py: the status code of the answer, the
\* response returned with it and the number of calls of the scraper
search_linkedin_jobs(search_request, outcome) ==
    LET body ==
            IF search_request.skills = <<>>
            THEN [raised |-> "HTTPException", status_code |-> 400, calls |-> 0,
                  result |-> NoValue]
            ELSE IF outcome = "raises"
            THEN [raised |-> "Exception", status_code |-> 0, calls |-> 1,
                  result |-> NoValue]
            ELSE [raised |-> "none", status_code |-> 200, calls |-> 1,
                  result |-> IF outcome = "success" THEN SuccessResponse(<<>>)
                             ELSE FailureResponse("Web scraping error")]
    IN  IF body.raised \in CaughtAsException
        THEN [status_code |-> 500, calls |-> body.calls, result |-> NoValue]
        ELSE [status_code |-> body.status_code, calls |-> body.calls,
              result |-> body.result]

InitApi ==
    /\ InitObject
    /\ scraper = "LinkedInScraper"
    /\ NoScoreCall
    /\ NoQuery
    /\ NoCard
    /\ NoSearch
    /\ NoProfile
    /\ NoProfileSearch
    /\ NoNavigation
    /\ NoService

\* POST /linkedin/search
SearchLinkedinJobs ==
    /\ pc = "idle"
    /\ \E search_request \in HandlerRequests, outcome \in ScraperOutcomes :
          LET answer == search_linkedin_jobs(search_request, outcome)
          IN  /\ request' = search_request
              /\ http_status' = answer.status_code
              /\ scraper_calls' = answer.calls
              /\ response' = answer.result
    /\ pc' = "returned"
    /\ op' = "search_linkedin_jobs"
    /\ UNCHANGED <<objVars, scoreVars, arg_skills, raised, url, cardVars, driver,
                   local_driver, sessions, page, next_card, jobs,
                   processed_count, profileVars, searchVars, navVars,
                   scraping_status>>

\* the answer has been sent
ReturnAnswer ==
    /\ pc = "returned"
    /\ op = "search_linkedin_jobs"
    /\ request' = NoValue
    /\ http_status' = 0
    /\ scraper_calls' = 0
    /\ response' = NoValue
    /\ pc' = "idle"
    /\ op' = "none"
    /\ UNCHANGED <<objVars, scoreVars, arg_skills, raised, url, cardVars, driver,
                   local_driver, sessions, page, next_card, jobs,
                   processed_count, profileVars, searchVars, navVars,
                   scraping_status>>

NextApi ==
    \/ SearchLinkedinJobs
    \/ ReturnAnswer

SpecApi == InitApi /\ [][NextApi]_vars

-----------------------------------------------------------------------------
(* Properties of the scorers, over SpecScore.                              *)

ScoreDone == pc = "returned" /\ op \in ScoreOps

\* bidirectional containment of a target skill with some observed skill, both
\* sides trimmed and case-folded
Containment(t, obs) ==
    \E j \in 1..Len(obs) : \/ In(LowerStrip(t), LowerStrip(obs[j]))
                           \/ In(LowerStrip(obs[j]), LowerStrip(t))

\* t is in the matched list, as written by the caller or in the normalised
\* form the calculate_skill_match methods report
Reported(t) == t \in Range(matched) \/ LowerStrip(t) \in Range(matched)

\* the target list a call scores against: the caller's, or self.target_skills
\* where calculate_skill_match of linkedin_scraper.py falls back to it
EffectiveTarget ==
    IF op = "calculate_skill_match" /\ target = <<>> THEN target_skills ELSE target

IsScore(n) == score.num = n * score.den

\* C1: in every scorer a target skill is reported as matched exactly when it
\* stands in bidirectional containment with some observed skill after trimming
\* and case-folding; score(["Oracle SQL"], ["SQL"]) = 100 and
\* score(["SQL"], ["Oracle SQL"]) = 100.
C1_BidirectionalContainment ==
    ScoreDone =>
        /\ \A i \in 1..Len(target) :
              Reported(target[i]) <=> Containment(target[i], observed)
        /\ (observed = <<SkillOracleSQL>> /\ target = <<SkillSQL>>) => IsScore(100)
        /\ (observed = <<SkillSQL>> /\ target = <<SkillOracleSQL>>) => IsScore(100)

\* C2: for a non-empty target list the score is 100 times the number of
\* distinct matched target skills divided by the number of target skills, and
\* lies within [0, 100].
C2_ScoreIsDistinctMatchedShare ==
    (ScoreDone /\ target # <<>>) =>
        LET distinctMatched == {t \in Range(target) : Reported(t)}
        IN  /\ score.den > 0
            /\ score.num * Len(target) = 100 * Cardinality(distinctMatched) * score.den
            /\ 0 <= score.num
            /\ score.num <= 100 * score.den

CsmDone == pc = "returned" /\ op \in {"calculate_skill_match", "calculate_skill_match_final"}

\* C3: calculate_skill_match returns score 0 and an empty matched list whenever
\* the observed list or the target list is empty: score([], ["A"]) = 0 and
\* score(["A"], []) = 0.
C3_EmptyInputScoresZero ==
    (CsmDone /\ (observed = <<>> \/ target = <<>>)) =>
        (IsScore(0) /\ matched = <<>>)

\* C4: every entry of the matched list is an element of the target list in its
\* original casing and spelling.
C4_MatchedKeepsOriginalSpelling ==
    ScoreDone => \A i \in 1..Len(matched) : matched[i] \in Range(EffectiveTarget)

\* C5: the matched list contains no skill twice, also when the target list
\* repeats a skill or holds skills equal after trimming and case-folding.
C5_MatchedHasNoDuplicates ==
    ScoreDone =>
        \A i, j \in 1..Len(matched) : i # j => matched[i] # matched[j]

-----------------------------------------------------------------------------
(* Properties of the request and of the query compiler, over SpecQuery.    *)

UrlBuilt == pc = "returned" /\ op = "_build_search_url"

\* the values a URL gives a parameter: for each place where key= occurs, the
\* text from there to the next & or to the end
ValuesAfter(u, key) ==
    LET at == {i \in 1..(Len(u) - Len(key)) :
                  SubSeq(u, i, i + Len(key)) = key \o <<"=">>}
        value(i) ==
            LET from == i + Len(key) + 1
                amps == {j \in from..Len(u) : u[j] = "&"}
                to   == IF amps = {} THEN Len(u) ELSE SetMin(amps) - 1
            IN  SubSeq(u, from, to)
    IN  {value(i) : i \in at}

\* the codes the fixed tables assign
ClaimedExperienceCodes ==
    [internship |-> "1", entry_level |-> "2", associate |-> "3",
     mid_senior |-> "4", director |-> "5"]

ClaimedJobTypeCodes ==
    [full_time |-> "F", part_time |-> "P", contract |-> "C",
     temporary |-> "T", volunteer |-> "V"]

CodeSet(table, name) == IF name \in DOMAIN table THEN {<<table[name]>>} ELSE {}

\* C6: the URL _build_search_url returns always contains f_TPR=r86400 and
\* start=0, and carries an f_E (an f_JT) parameter only with the code the fixed
\* table assigns to the request's experience level (job type); no other f_E or
\* f_JT value appears in it.
C6_QueryParameters ==
    UrlBuilt =>
        /\ In(KeyRecency \o <<"=">> \o ValueLastDay, url)
        /\ In(KeyStart \o <<"=", "0">>, url)
        /\ ValuesAfter(url, KeyExperience)
               = CodeSet(ClaimedExperienceCodes, request.experience_level)
        /\ ValuesAfter(url, KeyJobType)
               = CodeSet(ClaimedJobTypeCodes, request.job_type)

\* the request {skills: [Python, Django], location: "New York, NY",
\* experience_level: mid_senior, job_type: full_time} compiled to a query with
\* keywords=Python%20OR%20Django, location=New%20York%2C%20NY, f_E=4, f_JT=F
C6_Witness ==
    /\ UrlBuilt
    /\ request.skills = <<SkillPython, Strip(SkillPaddedDjango)>>
    /\ request.location = LocationNewYork
    /\ request.experience_level = "mid_senior"
    /\ request.job_type = "full_time"
    /\ In(<<"k", "e", "y", "w", "o", "r", "d", "s", "=", "P", "y", "t", "h", "o", "n",
            "%", "2", "0", "O", "R", "%", "2", "0", "D", "j", "a", "n", "g", "o", "&">>, url)
    /\ In(<<"l", "o", "c", "a", "t", "i", "o", "n", "=", "N", "e", "w", "%", "2", "0",
            "Y", "o", "r", "k", "%", "2", "C", "%", "2", "0", "N", "Y", "&">>, url)
    /\ In(<<"f", "_", "E", "=", "4", "&">>, url)
    /\ In(<<"f", "_", "J", "T", "=", "F", "&">>, url)

\* C7: a JobSearchRequest whose experience_level or job_type is a non-empty
\* value outside the five-value enumerations is never constructed.
C7_InvalidEnumRejected ==
    (request # NoValue) =>
        /\ request.experience_level \in {""} \cup DOMAIN ClaimedExperienceCodes
        /\ request.job_type \in {""} \cup DOMAIN ClaimedJobTypeCodes

\* C8: every constructed JobSearchRequest holds at least one skill, each of its
\* skills trimmed and non-blank, in the caller's relative order; construction
\* from an empty list or from a list of blank entries raises.
C8_RequestHasSkills ==
    LET nonblank(sk) == Strip(sk) # <<>>
    IN  /\ (request # NoValue) =>
               /\ Len(request.skills) >= 1
               /\ \A i \in 1..Len(request.skills) :
                     /\ request.skills[i] # <<>>
                     /\ Strip(request.skills[i]) = request.skills[i]
               /\ request.skills = MapSeq(Strip, SelectSeq(arg_skills, nonblank))
        /\ (op = "JobSearchRequest" /\ SelectSeq(arg_skills, nonblank) = <<>>) =>
               (raised = "ValueError" /\ request = NoValue)

-----------------------------------------------------------------------------
(* Properties of the field extractor, over SpecCard.                       *)

TextExtracted == pc = "returned" /\ op = "_extract_text_from_card"

\* the positions of the selector list whose selector locates an element of the
\* card with non-blank text
Qualifying ==
    {i \in 1..Len(selectors) :
        /\ card[selectors[i]].kind = "element"
        /\ \E k \in 1..Len(card[selectors[i]].text) :
              card[selectors[i]].text[k] \notin Whitespace}

\* C10: _extract_text_from_card returns the trimmed text of the lowest-index
\* selector that both locates an element and has non-blank text, never that of
\* a later selector, and returns the empty text only when no selector
\* qualifies.
C10_FirstQualifyingSelectorWins ==
    TextExtracted =>
        /\ Qualifying # {} =>
               text = Strip(card[selectors[SetMin(Qualifying)]].text)
        /\ Qualifying = {} => text = <<>>

\* an earlier selector located an element with blank text, and two later
\* selectors qualify with different texts: the first of the two was returned
C10_Witness ==
    /\ TextExtracted
    /\ Len(selectors) = 3
    /\ card[selectors[1]] = LookupText(<<" ">>)
    /\ card[selectors[2]] = LookupText(TextAnn)
    /\ card[selectors[3]] = LookupText(TextBob)
    /\ text = <<"A", "n", "n">>

-----------------------------------------------------------------------------
(* Properties of the job search, over SpecJobs.                            *)

\* C9: a search request whose limit is outside 1..50 is rejected before any
\* browser session is created or any page is navigated: search_jobs never
\* runs with such a limit.
C9_LimitCheckedBeforeSession ==
    (request # NoValue /\ request.limit \notin 1..50) =>
        /\ local_driver = 0
        /\ pc \notin {"navigate", "wait", "parse", "loop"}
        /\ url = <<>>

-----------------------------------------------------------------------------
(* Properties of scrape_profile, over SpecProfile.                         *)

ProfileScraped == pc = "returned" /\ op = "scrape_profile"

\* what a field holds when a lookup that found no element counts as empty
FieldValue(found) == IF found.kind = "element" THEN Strip(found.text) ELSE <<>>

\* C11: a failure of any kind while locating the node of one field counts as
\* an empty result for that field: once the page is open, scrape_profile
\* returns a record whatever the lookups of its fields do, each field holding
\* the text its own lookup read or the empty result, and a page on which every
\* lookup finds nothing yields a record too.
C11_LookupFailureIsEmptyResult ==
    (ProfileScraped /\ profile_page.get = "ok") =>
        /\ profile # NoValue
        /\ profile.name = Or(FieldValue(profile_page.name), TextNA)
        /\ profile.headline = FieldValue(profile_page.headline)
        /\ profile.location = FieldValue(profile_page.location)
        /\ profile.current_company = FieldValue(profile_page.current_company)
        /\ profile.about = FieldValue(profile_page.about)
        /\ profile.connections = FieldValue(profile_page.connections)

-----------------------------------------------------------------------------
(* Properties of extract_detailed_profile, over SpecDetail.                *)

DetailDone == pc = "returned" /\ op = "extract_detailed_profile"

DetailFields == {"about", "experience", "education", "skills", "connections", "headline"}

\* C12: on every return path of extract_detailed_profile, each of about,
\* experience, education, skills, connections and headline is a key of the
\* returned dict and holds a non-empty text (an extracted value or the
\* "Not available" sentinel): none is missing, none is the empty string.
C12_EveryFieldSetOnReturn ==
    DetailDone =>
        \A f \in DetailFields :
            /\ f \in DOMAIN detailed_info
            /\ detailed_info[f] # <<>>

\* C13: a text extract_detailed_profile accepted for a field is longer than
\* the field's minimum: about longer than 10 characters, headline longer than
\* 5, every skill longer than 1, whichever path (selectors or fallback)
\* accepted it.
C13_AcceptedTextsAreLongEnough ==
    DetailDone =>
        /\ detailed_info["about"] \notin {<<>>, NotAvailable}
              => Len(detailed_info["about"]) > MinAboutLen
        /\ ("headline" \in DOMAIN detailed_info
               /\ detailed_info["headline"] # NotAvailable)
              => Len(detailed_info["headline"]) > MinHeadlineLen
        /\ detailed_info["skills"] \notin {<<>>, NotAvailable}
              => \A i \in 1..Len(skills_list(detailed_info["skills"])) :
                    Len(skills_list(detailed_info["skills"])[i]) > MinSkillLen

-----------------------------------------------------------------------------
(* Properties of the records search_jobs returns, over SpecJobs.           *)

\* C14: every URL stored in a returned record has had its query string
\* removed: the linkedin_url of a returned job listing is its own canonical
\* form, so it holds no '?'.
C14_StoredUrlsAreCanonical ==
    response # NoValue =>
        \A i \in 1..Len(response.jobs) :
            /\ response.jobs[i].linkedin_url = canonical_url(response.jobs[i].linkedin_url)
            /\ ~In(<<"?">>, response.jobs[i].linkedin_url)

\* C15: a candidate whose title cannot be resolved is rejected: no returned
\* job listing carries the placeholder "N/A" as its title.
C15_NoPlaceholderIdentity ==
    response # NoValue =>
        \A i \in 1..Len(response.jobs) : response.jobs[i].title # TextNA

-----------------------------------------------------------------------------
(* Properties of the three searches, over SpecSearch.                      *)

\* the limit of the search in hand, 0 when there is none
SearchLimit ==
    IF op = "search_jobs" THEN (IF request # NoValue THEN request.limit ELSE 0)
    ELSE IF op \in {"search_profiles", "scrape_profiles"} THEN profile_limit
    ELSE 0

\* the records the search in hand has accepted so far
SearchRecords == IF op = "search_jobs" THEN jobs ELSE profiles

\* the number of candidates the search in hand has handed to its builder
SearchExamined == IF op = "search_jobs" THEN next_card - 1 ELSE next_profile - 1

\* C16: for every limit >= 1 and every number of candidates on the page, a
\* search (search_jobs, search_profiles, scrape_profiles) never holds or
\* returns more than limit records, and it hands a further candidate to its
\* builder only while fewer than limit records are accepted.
C16_AtMostLimitRecords ==
    /\ [](SearchLimit >= 1 =>
             /\ Len(SearchRecords) <= SearchLimit
             /\ (op = "search_jobs" /\ response # NoValue)
                   => Len(response.jobs) <= SearchLimit)
    /\ [][(SearchLimit >= 1 /\ SearchExamined' > SearchExamined)
             => Len(SearchRecords) < SearchLimit]_vars

\* C16 witness: search_profiles has returned from a page with more cards than
\* the limit, with exactly limit records.
C16_Witness ==
    /\ pc = "returned"
    /\ op = "search_profiles"
    /\ profile_limit >= 1
    /\ Len(profile_cards) > profile_limit
    /\ Len(profiles) = profile_limit

\* the number of cards of the page that _extract_single_profile accepts
ValidCards ==
    Cardinality({i \in 1..Len(profile_cards) :
                    extract_single_profile(profile_cards[i], arg_skills) # NoValue})

\* the number of containers of the page that _extract_job_from_element accepts
ValidJobs ==
    Cardinality({i \in 1..Len(page) :
                    extract_job_from_element(target_skills, page[i], request.skills)
                        # NoValue})

\* C17: candidates the builder rejects do not consume the limit: when the page
\* holds at least limit candidates that the builder accepts, the search
\* returns exactly limit records.
C17_RejectedDoNotConsumeLimit ==
    /\ (pc = "returned" /\ op = "search_profiles" /\ results.load = "ready"
           /\ profile_limit >= 1 /\ ValidCards >= profile_limit)
          => Len(profiles) = profile_limit
    /\ (op = "search_jobs" /\ response # NoValue /\ response.success
           /\ request.limit >= 1 /\ ValidJobs >= request.limit)
          => Len(response.jobs) = request.limit

\* "Detailed job information is only fetched for the first 3 results"
EnrichmentPrefix == 3

\* C18: during one search the detail lookup is invoked for at most the first
\* 3 accepted records, whatever the limit.
C18_DetailLookupOnlyForPrefix ==
    op = "search_profiles" => Len(detail_calls) <= EnrichmentPrefix

\* the card the loop of search_profiles examined last, and its record as built
\* from the card alone
LastCard == profile_cards[next_profile - 1]

CoarseRecord == extract_single_profile(LastCard, arg_skills)

\* the detail lookup of the last card was made and failed
DetailFailed ==
    /\ op = "search_profiles"
    /\ pc \in {"cards", "returned"}
    /\ next_profile > 1
    /\ CoarseRecord # NoValue
    /\ has_profile_url(CoarseRecord)
    /\ extract_detailed_profile(LastCard.detail)["profile_summary"] = ExtractionFailed

\* C19: when the detail lookup of an accepted record fails, the record is in
\* the list with its coarse state: headline, skill_match_score,
\* required_skills_matched and total_skills_count as computed from the card.
C19_FailedLookupKeepsCoarseState ==
    DetailFailed =>
        /\ profiles # <<>>
        /\ LET kept == profiles[Len(profiles)]
           IN  /\ kept.name = CoarseRecord.name
               /\ kept.headline = CoarseRecord.headline
               /\ kept.skill_match_score = CoarseRecord.skill_match_score
               /\ kept.required_skills_matched = CoarseRecord.required_skills_matched
               /\ kept.total_skills_count = CoarseRecord.total_skills_count

\* score a is not below score b
NotBelow(a, b) == a.num * b.den >= b.num * a.den

\* C20: the list a profile search returns is ordered by non-increasing match
\* score, and records of equal score keep the order in which their candidates
\* appeared on the page.
C20_ProfilesSortedByScore ==
    (pc = "returned" /\ op \in {"search_profiles", "scrape_profiles"}) =>
        /\ \A i \in 1..(Len(profiles) - 1) :
              NotBelow(profiles[i].skill_match_score, profiles[i + 1].skill_match_score)
        /\ op = "scrape_profiles" =>
              \A i, j \in 1..Len(profiles) :
                  (/\ i < j
                   /\ NotBelow(profiles[i].skill_match_score, profiles[j].skill_match_score)
                   /\ NotBelow(profiles[j].skill_match_score, profiles[i].skill_match_score))
                     => \E a, b \in 1..Len(profile_cards) :
                           /\ a <= b
                           /\ profile_cards[a].url = profiles[i].profile_url
                           /\ profile_cards[b].url = profiles[j].profile_url

-----------------------------------------------------------------------------
(* Properties of the job listings and of the responses of search_jobs,     *)
(* over SpecJobs.                                                          *)

\* the caller skills, by position, that stand in containment with the text of
\* the given job listing's title and company
MentionedSkills(job) ==
    {k \in 1..Len(request.skills) :
        Containment(request.skills[k], <<job.title \o <<" ">> \o job.company>>)}

\* C21: for every job listing built from a search-result card, skills_matched
\* holds exactly the caller skills that stand in containment with the card's
\* title-plus-company text and match_score is their share of the caller
\* skills in percent; a card whose title and company mention none of the
\* caller's skills has an empty skills_matched and score 0.
C21_JobSkillsComeFromTitleAndCompany ==
    (op = "search_jobs" /\ request # NoValue) =>
        \A i \in 1..Len(jobs) :
            /\ \A k \in 1..Len(request.skills) :
                  (k \in MentionedSkills(jobs[i]))
                     <=> (LowerStrip(request.skills[k]) \in Range(jobs[i].skills_matched))
            /\ jobs[i].match_score.num * Len(request.skills)
                  = 100 * Cardinality(MentionedSkills(jobs[i])) * jobs[i].match_score.den
            /\ MentionedSkills(jobs[i]) = {}
                  => /\ jobs[i].skills_matched = <<>>
                     /\ jobs[i].match_score.num = 0

-----------------------------------------------------------------------------
(* Properties of the skills block of extract_detailed_profile, over        *)
(* SpecDetail.                                                             *)

\* the texts the skill selectors find behind the skills links of a page
StructuredTexts(dp) ==
    UNION {UNION {{Strip(t) : t \in Range(dp.skills[i].lists[l].texts)} :
                     l \in {k \in 1..Len(dp.skills[i].lists) :
                               dp.skills[i].lists[k].kind = "elements"}} :
              i \in {k \in 1..Len(dp.skills) : dp.skills[k].kind = "element"}}

\* the common skills the page source mentions, as the fallback writes them
SniffedKeywords(dp) ==
    IF dp.page_source.kind # "element" THEN {}
    ELSE {Title(common_skills[i]) :
             i \in {k \in 1..Len(common_skills) :
                       In(common_skills[k], Lower(dp.page_source.text))}}

\* some skills link that the loop over the selectors reaches and clicks shows
\* at least one text long enough to be a skill
StructuredProduced(dp) ==
    \E i \in 1..Len(dp.skills) :
        /\ \A j \in 1..(i - 1) : \/ dp.skills[j].kind # "element"
                                 \/ dp.skills[j].click # "ok"
                                 \/ dp.skills[j].back # "ok"
        /\ dp.skills[i].kind = "element"
        /\ dp.skills[i].click = "ok"
        /\ \E l \in 1..Len(dp.skills[i].lists) :
              /\ dp.skills[i].lists[l].kind = "elements"
              /\ \E t \in Range(dp.skills[i].lists[l].texts) :
                    Len(Strip(t)) > MinSkillLen

\* C22: in extract_detailed_profile the whole-page keyword sniffing for
\* skills runs only when no structured strategy produced any skill, and the
\* skills value is then made of sniffed keywords only (or is the sentinel when
\* there are none); whenever a structured strategy produced at least one
\* skill, the skills value holds structured results only.
C22_SniffingIsLastResort ==
    (DetailDone /\ profile_page.load # "raises") =>
        LET entries == Range(skills_list(detailed_info["skills"]))
        IN  IF StructuredProduced(profile_page)
            THEN /\ detailed_info["skills"] # NotAvailable
                 /\ entries \subseteq StructuredTexts(profile_page)
            ELSE \/ /\ SniffedKeywords(profile_page) = {}
                    /\ detailed_info["skills"] = NotAvailable
                 \/ /\ SniffedKeywords(profile_page) # {}
                    /\ entries \subseteq SniffedKeywords(profile_page)

\* a page on which a skills link produced skills while the page source also
\* mentions common skills that the link does not list
C22_Witness ==
    /\ DetailDone
    /\ profile_page.load # "raises"
    /\ StructuredProduced(profile_page)
    /\ ~(SniffedKeywords(profile_page) \subseteq StructuredTexts(profile_page))

(***************************************************************************)
(* Further properties of search_jobs and of its browser sessions, over     *)
(* SpecJobs.                                                               *)
(***************************************************************************)

\* LinkedInScraper.search_jobs has run its finally clause on a valid request
SearchJobsOver ==
    /\ op = "search_jobs"
    /\ request # NoValue
    /\ pc \in {"close", "returned"}

\* C23: when the results container does not become ready within the timeout,
\* search_jobs returns a response with success=false, an empty job list,
\* total_jobs_found=0 and a non-empty message, extracts no candidate and
\* raises no exception to the caller: the step that ends the wait without the
\* container builds that response with no container examined, and the finally
\* clause and close() hand it on unchanged.
C23_TimeoutIsFailureResponse ==
    /\ [][(pc = "wait" /\ pc' = "finally")
             => /\ raised' = "none"
                /\ response' # NoValue
                /\ response'.success = FALSE
                /\ response'.jobs = <<>>
                /\ response'.total_jobs_found = 0
                /\ response'.message # ""
                /\ page' = <<>> /\ next_card' = 1 /\ jobs' = <<>>]_vars
    /\ [][(op = "search_jobs" /\ pc \in {"finally", "close"})
             => /\ response' = response
                /\ raised' = raised
                /\ jobs' = jobs]_vars

\* a search that timed out on the results page has returned
C23_Witness ==
    /\ pc = "returned"
    /\ op = "search_jobs"
    /\ local_driver # 0
    /\ url # <<>>
    /\ page = <<>>
    /\ response = FailureResponse("Failed to load job listings - LinkedIn may be blocking requests")

\* C24: every browser session created during a search is released before
\* the search operation returns, on all exit paths, a fault inside
\* setup_driver after the browser was launched included: when
\* LinkedInScraper.search_jobs has returned, every session created so far has
\* received quit().
C24_SessionsReleasedOnReturn ==
    (op = "search_jobs" /\ pc = "close") =>
        \A i \in 1..Len(sessions) : sessions[i].quits >= 1

\* C25: search_jobs never lets an exception escape for an operational
\* failure: on every path of a search on a valid request it returns a response
\* in which total_jobs_found equals the number of jobs in the list, and
\* success=false implies that the job list is empty and the message is not.
C25_ResponseIsWellFormed ==
    SearchJobsOver =>
        /\ raised = "none"
        /\ response # NoValue
        /\ response.total_jobs_found = Len(response.jobs)
        /\ response.success = FALSE
              => /\ response.jobs = <<>>
                 /\ response.message # ""

\* a search has returned fewer jobs than the page has containers
C25_Witness ==
    /\ SearchJobsOver
    /\ pc = "returned"
    /\ response.success
    /\ response.jobs # <<>>
    /\ Len(response.jobs) < Len(page)

\* C29: no operation is issued on a browser session after it has been quit:
\* each created driver receives quit() at most once, and when close() is about
\* to run, the driver that self.driver refers to has not been quit already.
C29_NoOperationAfterQuit ==
    /\ \A i \in 1..Len(sessions) : sessions[i].quits <= 1
    /\ (pc = "close" /\ driver # 0) => sessions[driver].quits = 0

-----------------------------------------------------------------------------
(* Further properties of search_profiles, over SpecSearch.                 *)

\* C27: an observed entry that is blank after trimming never makes a target
\* skill match: in the record of the card examined last, every matched target
\* stands in containment with an entry that is not blank among those that
\* were scored (name, headline and company of the card, or the skills of the
\* detail lookup where they replaced them), and a record with no such entry
\* has score 0.
C27_BlankEntryNeverMatches ==
    (/\ op = "search_profiles"
     /\ pc \in {"cards", "returned"}
     /\ next_profile > 1
     /\ CoarseRecord # NoValue) =>
        LET kept == profiles[Len(profiles)]
            info == extract_detailed_profile(LastCard.detail)
            rescored == has_profile_url(CoarseRecord) /\ info["skills"] # NotAvailable
            scored == IF rescored THEN skills_list(info["skills"])
                      ELSE <<CoarseRecord.name, CoarseRecord.headline,
                             CoarseRecord.current_company>>
            nonblank(e) == Strip(e) # <<>>
        IN  /\ \A k \in 1..Len(kept.required_skills_matched) :
                  Containment(kept.required_skills_matched[k],
                              SelectSeq(scored, nonblank))
            /\ SelectSeq(scored, nonblank) = <<>> => kept.skill_match_score.num = 0

(***************************************************************************)
(* Properties of get_scraping_status, over SpecJobs.                       *)
(***************************************************************************)

\* C26: after any sequence of operations on a scraper (searches that succeed,
\* time out or fail, and close), get_scraping_status returns status "ready"
\* with jobs_scraped = 0, profiles_scraped = 0 and an empty error list, and
\* the call changes no state of the scraper or of its browser sessions.
C26_StatusIsAlwaysReady ==
    /\ []((pc = "returned" /\ op = "get_scraping_status")
             => /\ scraping_status # NoValue
                /\ scraping_status.status = "ready"
                /\ scraping_status.jobs_scraped = 0
                /\ scraping_status.profiles_scraped = 0
                /\ scraping_status.errors = <<>>)
    /\ [][(op' = "get_scraping_status" /\ pc' = "returned")
             => UNCHANGED <<scraper, target_skills, driver, sessions>>]_vars

\* the status is returned after a search has run and its session was quit
C26_Witness ==
    /\ pc = "returned"
    /\ op = "get_scraping_status"
    /\ scraping_status # NoValue
    /\ \E i \in 1..Len(sessions) : sessions[i].quits >= 1

-----------------------------------------------------------------------------
(* Properties of the /linkedin/search handler of app.py, over SpecApi.     *)

\* C30: a request that fails the handler's own validation (no skills) is
\* answered with status 400 and the scraper is never invoked; the 400 is not
\* turned into a 500 by the handler's generic exception path.
C30_NoSkillsIsAnswered400 ==
    (pc = "returned" /\ op = "search_linkedin_jobs" /\ request.skills = <<>>) =>
        /\ http_status = 400
        /\ scraper_calls = 0

-----------------------------------------------------------------------------
(* Properties of the helpers that navigate, over SpecProfile (and, for     *)
(* extract_detailed_profile, SpecDetail).                                  *)

\* scrape_profile has returned from a run in which it called _extract_skills
SkillsExtracted ==
    /\ pc = "returned"
    /\ op = "scrape_profile"
    /\ profile_page.get = "ok"
    /\ \A f \in {"name", "headline", "location", "current_company", "about"} :
          extract_text(profile_page[f]).raised = "none"

\* C28: every helper that navigates the shared browser session away from the
\* current page restores it before returning, on success and on every caught
\* failure: when extract_detailed_profile returns, the session shows the
\* search-results page it was called from, and when _extract_skills returns,
\* the session shows the profile page it was called from.
C28_HelpersRestoreThePage ==
    /\ (pc = "returned" /\ op = "extract_detailed_profile")
          => history = <<"earlier", "results">>
    /\ SkillsExtracted => history = <<"earlier", "profile">>

=============================================================================
